---- MODULE Spec2Model ----
(***************************************************************************)
(* Model of the dx display-linked dataframe cache: the render path of      *)
(* dx/formatters/dx.py (handle_dx_format, format_dx), the resample comm    *)
(* callback of dx/comms/resample.py and the assignment comm callback of    *)
(* dx/comms/assignment.py.                                                 *)
(*                                                                         *)
(* The kernel is single threaded: a render runs from its first statement   *)
(* to its return before any comm callback is dispatched.  The render is    *)
(* kept as a sequence of steps (pc) so that the order "display, then       *)
(* store" is visible, and comm messages may arrive in the inbox at any     *)
(* step; they are handled only when the kernel thread is idle.             *)
(*                                                                         *)
(* dx.utils.tracking (registry, sqlite store), dx.filtering (resample),   *)
(* dx.sampling and dx.utils.formatting are not part of the sources at      *)
(* hand; their operators are modelled from the design document and are     *)
(* marked so where they are defined.  format_dx is also modelled as called *)
(* on its own on dataframes given by their shape, and register, deregister *)
(* and reset switch the display mode and its limits.  The kernel has one   *)
(* shell: a shell passed to register, deregister or reset is that shell.   *)
(***************************************************************************)
EXTENDS Integers, Sequences, FiniteSets, TLC

\* ---------------------------------------------------------------- bounds
MaxDisplays == 2        \* display ids (uuid4 values) that can be minted
MaxOps      == 3        \* top-level calls (renders, comm callbacks) in a run
MaxInbox    == 1        \* resample requests waiting for the kernel thread

\* ---------------------------------------------------------------- settings
\* DXSettings, dx.py lines 32-33
DX_DISPLAY_MAX_ROWS    == 100000
DX_DISPLAY_MAX_COLUMNS == 50
\* DataResourceSettings, dataresource.py lines 31-32
DATARESOURCE_DISPLAY_MAX_ROWS    == 100000
DATARESOURCE_DISPLAY_MAX_COLUMNS == 50
\* PandasSettings, main.py lines 23-24
PANDAS_DISPLAY_MAX_ROWS    == 60
PANDAS_DISPLAY_MAX_COLUMNS == 20
\* DataResourceSettings of formatters/simple.py, lines 17-19
SIMPLE_DISPLAY_MAX_ROWS    == 50000
SIMPLE_DISPLAY_MAX_COLUMNS == 50
SIMPLE_MAX_STRING_LENGTH   == 250
\* the media types: dx.py line 35, dataresource.py line 34, main.py line 26
DX_MEDIA_TYPE           == "application/vnd.dex.v1+json"
DATARESOURCE_MEDIA_TYPE == "application/vnd.dataresource+json"
PANDAS_MEDIA_TYPE       == "application/vnd.dataresource+json"
\* DXSettings, dx.py lines 37-40: the options of the class that may be
\* assigned or set from the environment, with the values the class gives
DXSettings == [DX_FLATTEN_INDEX_VALUES : BOOLEAN, DX_FLATTEN_COLUMN_VALUES : BOOLEAN,
               DX_STRINGIFY_INDEX_VALUES : BOOLEAN, DX_STRINGIFY_COLUMN_VALUES : BOOLEAN]
get_dx_settings ==
    [DX_FLATTEN_INDEX_VALUES |-> FALSE, DX_FLATTEN_COLUMN_VALUES |-> TRUE,
     DX_STRINGIFY_INDEX_VALUES |-> FALSE, DX_STRINGIFY_COLUMN_VALUES |-> TRUE]
\* DataResourceSettings, dataresource.py lines 36-39
get_dataresource_settings ==
    [DATARESOURCE_FLATTEN_INDEX_VALUES |-> FALSE,
     DATARESOURCE_FLATTEN_COLUMN_VALUES |-> TRUE,
     DATARESOURCE_STRINGIFY_INDEX_VALUES |-> FALSE,
     DATARESOURCE_STRINGIFY_COLUMN_VALUES |-> TRUE]

\* ---------------------------------------------------------------- domains
Values     == {1, 2}                  \* cell values of the one data column
IndexKinds == {"range", "int64", "custom"}
\* a dataframe: its rows and the kind of index it carries ("range" is the
\* pandas default RangeIndex, "int64" an integer index holding 0..n-1)
DataFrames == [rows : SUBSET Values, index : IndexKinds]
\* the dataframes the user renders: two rows under each kind of index, and
\* one row under the default index
Rendered   == [rows : {{1, 2}}, index : IndexKinds]
                  \cup {[rows |-> {1}, index |-> "range"]}
\* the objects a cell may end with: the dataframes, and an object that is
\* none of the RENDERABLE_OBJECTS
Objects    == Rendered \cup {[repr |-> "text"]}
DisplayIds == 1..MaxDisplays
NoName     == << >>                   \* no variable name
NoHash     == <<"none", {}, "none">>  \* no hash
NoId       == 0                       \* no display id
NoFrame    == [rows |-> {}, index |-> "none"]   \* no dataframe
None       == "None"                  \* no shell
Shells     == {None, "InteractiveShell"}

\* A filter clause: value between lo and hi.  A filter list is a sequence.
Clause(lo, hi) == [lo |-> lo, hi |-> hi]
FilterLists == {<< >>, <<Clause(1, 1)>>, <<Clause(2, 1)>>,
                <<Clause(1, 2), Clause(2, 2)>>, <<Clause(1, 2), Clause(2, 1)>>}
Limits      == {1, 2}
NoLimit     == 0                      \* no sample_size in the message

\* A variable name is its base followed by the numeric suffixes appended to
\* it: <<"x", 1>> is the string "x_1".
ReqNames  == {<<"x">>, <<"y">>}
\* the names the user has bound before the first request
UserNames == {<<"x">>, <<"x", 1>>}

\* the number of rows and of columns of a dataframe given to format_dx
RowCounts == {0, 60, 61, 200000}
ColCounts == {20, 51}
Shapes    == [num_rows : RowCounts, num_cols : ColCounts]
NoShape   == [num_rows |-> 0, num_cols |-> 0]
\* the limits a user sets with settings_context
RowLimits == {1}
ColLimits == {1, 50}

\* A dataframe with its content, as generate_dx_body and
\* generate_dataresource_body read it: the levels of the index and the
\* columns, each a name and the list of its values, one value per row.  An
\* index level without a name has the name None.
Column(name, values) == [name |-> name, values |-> values]

\* pandas RangeIndex: the positions "0", "1", ... of n rows
RangeIndex(n) == SubSeq(<<"0", "1", "2">>, 1, n)

\* the sample_dataframe of the tests: three rows, the default index
sample_dataframe ==
    [index   |-> <<Column(None, RangeIndex(3))>>,
     columns |-> <<Column("col_1", <<"a", "a", "a">>),
                   Column("col_2", <<"b", "b", "b">>),
                   Column("col_3", <<"c", "c", "c">>)>>]

\* DataFrame.set_index(keys): the first k columns become the index levels
set_index(df, k) ==
    [index   |-> SubSeq(df.columns, 1, k),
     columns |-> SubSeq(df.columns, k + 1, Len(df.columns))]

\* the dataframes passed to the body generators: the sample dataframe, the
\* same with its index replaced by labels, with one and with two of its
\* columns as the index, and a dataframe without rows
Frames ==
    {sample_dataframe,
     [sample_dataframe EXCEPT !.index = <<Column(None, <<"7", "8", "9">>)>>],
     set_index(sample_dataframe, 1),
     set_index(sample_dataframe, 2),
     [index |-> <<Column(None, << >>)>>, columns |-> <<Column("col_1", << >>)>>]}
NoTable == [index |-> << >>, columns |-> << >>]

VARIABLES
    ENABLE_DATALINK,
    SUBSET_TO_DATAFRAME_HASH,
    DATAFRAME_HASH_TO_DISPLAY_ID,
    SUBSET_FILTERS,
    DISPLAY_ID_TO_ORIG_METADATA,
    next_uuid,
    store,
    displayed,
    user_ns,
    inbox,
    pc,
    cur,
    sent,
    raised,
    ops,
    last,
    first_display,
    failed,
    writes,
    settings,
    display_formatter,
    IN_IPYTHON_ENV,
    get_ipython,
    dx_settings,
    DISPLAY_ID_TO_METADATA,
    LAST_DATARESOURCE_SENT,
    views

vars == <<ENABLE_DATALINK, SUBSET_TO_DATAFRAME_HASH, DATAFRAME_HASH_TO_DISPLAY_ID,
          SUBSET_FILTERS, DISPLAY_ID_TO_ORIG_METADATA, next_uuid, store, displayed,
          user_ns, inbox, pc, cur, sent, raised, ops, last, first_display, failed,
          writes, settings, display_formatter, IN_IPYTHON_ENV, get_ipython,
          dx_settings, DISPLAY_ID_TO_METADATA, LAST_DATARESOURCE_SENT, views>>

\* the dictionaries of the dataresource formatter
dataresource == <<DISPLAY_ID_TO_METADATA, LAST_DATARESOURCE_SENT>>

\* what no operation but the start of the process sets: whether IPython ran
\* when dx was imported, the shell get_ipython() returns, the DX settings
environment == <<IN_IPYTHON_ENV, get_ipython, dx_settings>>

\* ---------------------------------------------------------------- helpers
Put(f, k, v) == [x \in DOMAIN f \cup {k} |-> IF x = k THEN v ELSE f[x]]

\* dx.utils.formatting.is_default_index
is_default_index(index) == index \in {"range", "int64"}

\* dx.utils.formatting.normalize_index_and_columns: a default-equivalent
\* index is brought to the canonical positional form
normalize_index_and_columns(obj) ==
    [rows |-> obj.rows,
     index |-> IF is_default_index(obj.index) THEN "range" ELSE obj.index]

\* dx.utils.tracking.generate_df_hash: a digest of the content, equal for
\* equal content and different for different content
generate_df_hash(df) == <<"sha", df.rows, df.index>>

Hashes == {generate_df_hash(normalize_index_and_columns(df)) : df \in DataFrames}

\* the registry entry test of the new-or-update decision
KnownHash(h) == h \in DOMAIN SUBSET_TO_DATAFRAME_HASH

\* dx.utils.tracking.get_display_id: the display id of the lineage the hash
\* belongs to, a new uuid4 for a hash never seen
get_display_id(h) ==
    IF KnownHash(h)
    THEN DATAFRAME_HASH_TO_DISPLAY_ID[SUBSET_TO_DATAFRAME_HASH[h]]
    ELSE next_uuid

\* the table a display id is stored under (register_display_id's result)
generate_sql_table_name(display_id) == display_id

\* display ids that have a registry entry
RegisteredDisplays == {DATAFRAME_HASH_TO_DISPLAY_ID[h] : h \in DOMAIN DATAFRAME_HASH_TO_DISPLAY_ID}

\* the hash a registered display id was minted for
RootHash(d) == CHOOSE h \in DOMAIN DATAFRAME_HASH_TO_DISPLAY_ID :
                   DATAFRAME_HASH_TO_DISPLAY_ID[h] = d

\* ---------------------------------------------------------------- records
Display(d, upd, h, f, prim) ==
    [display_id |-> d, update |-> upd, applied_filters |-> f, primary |-> prim]

Envelope(status, error, text, name) ==
    [status |-> status, error |-> error, msg |-> text, variable_name |-> name]

\* what the last top-level call did (history, read by the properties only)
LastNone ==
    [kind |-> "none", update |-> FALSE, datalink |-> FALSE,
     known_before |-> FALSE, same_id |-> TRUE, wrote |-> FALSE,
     error |-> "none", observed |-> "none", carries |-> FALSE,
     registered |-> FALSE, degraded |-> FALSE, parsed |-> FALSE, valid |-> FALSE,
     result_ok |-> TRUE, in_flight |-> FALSE, fresh_id |-> FALSE,
     queried |-> FALSE, bound |-> FALSE, filters |-> << >>, where |-> << >>,
     limit |-> NoLimit, hash |-> NoHash, emitted |-> {},
     input |-> NoShape, payload |-> NoShape,
     given |-> NoFrame, after |-> NoFrame,
     max_rows |-> 0, max_columns |-> 0,
     info |-> [orig_num_rows |-> 0, orig_num_cols |-> 0,
               truncated_num_rows |-> 0, truncated_num_cols |-> 0],
     shell_given |-> FALSE, running |-> FALSE,
     frame |-> NoTable, returned |-> << >>, shown_id |-> NoId,
     formatter |-> "none", renderable |-> FALSE, handled |-> FALSE,
     delegated |-> FALSE, bundle |-> "none", kwargs |-> << >>,
     requested |-> NoName, free_name |-> NoName, ns_before |-> {}]

\* a value the user bound in the namespace, and one bound by assignment
UserValue == [rows |-> {}, seq |-> 0]

NoCur == [hash |-> NoHash, display_id |-> NoId, table |-> NoId, rows |-> {}]

\* ---------------------------------------------------------------- Init
\* register, dx.py lines 222-236: the settings it applies from the DX
\* settings; MAX_STRING_LENGTH, which it does not apply, is 0 until applied
register_settings(dxs) ==
    [DISPLAY_MODE |-> "enhanced",
     DISPLAY_MAX_ROWS |-> DX_DISPLAY_MAX_ROWS,
     DISPLAY_MAX_COLUMNS |-> DX_DISPLAY_MAX_COLUMNS,
     MEDIA_TYPE |-> DX_MEDIA_TYPE,
     FLATTEN_INDEX_VALUES |-> dxs.DX_FLATTEN_INDEX_VALUES,
     FLATTEN_COLUMN_VALUES |-> dxs.DX_FLATTEN_COLUMN_VALUES,
     STRINGIFY_INDEX_VALUES |-> dxs.DX_STRINGIFY_INDEX_VALUES,
     STRINGIFY_COLUMN_VALUES |-> dxs.DX_STRINGIFY_COLUMN_VALUES,
     MAX_STRING_LENGTH |-> 0]

\* the registry, the store and the shell after dx.register(): the dx
\* formatter handles the renders
InitState ==
    /\ ENABLE_DATALINK = TRUE
    /\ SUBSET_TO_DATAFRAME_HASH = << >>
    /\ DATAFRAME_HASH_TO_DISPLAY_ID = << >>
    /\ SUBSET_FILTERS = << >>
    /\ DISPLAY_ID_TO_ORIG_METADATA = << >>
    /\ next_uuid = 1
    /\ store = [t \in DisplayIds |-> [status |-> "absent", rows |-> {}]]
    /\ displayed = {}
    /\ user_ns = [n \in UserNames |-> UserValue]
    /\ inbox = << >>
    /\ pc = "idle"
    /\ cur = NoCur
    /\ sent = << >>
    /\ raised = "none"
    /\ ops = 0
    /\ last = LastNone
    /\ first_display = << >>
    /\ failed = {}
    /\ writes = [h \in Hashes |-> 0]
    /\ settings = register_settings(dx_settings)
    /\ display_formatter = "DXDisplayFormatter"
    /\ DISPLAY_ID_TO_METADATA = << >>
    /\ LAST_DATARESOURCE_SENT = << >>
    /\ views = << >>

\* a notebook kernel: dx was imported and registered inside IPython, with
\* the DX settings of the class
Init ==
    /\ IN_IPYTHON_ENV = TRUE
    /\ get_ipython = "InteractiveShell"
    /\ dx_settings = get_dx_settings
    /\ InitState

\* config.py line 6 and get_ipython(): dx imported inside IPython, in a
\* process without IPython, or in a process that started IPython afterwards
Environments ==
    {<<TRUE, "InteractiveShell">>, <<FALSE, None>>, <<FALSE, "InteractiveShell">>}

\* any of these processes, with any DX settings, after register(shell)
InitModes ==
    /\ \E e \in Environments : IN_IPYTHON_ENV = e[1] /\ get_ipython = e[2]
    /\ dx_settings \in DXSettings
    /\ InitState

\* ---------------------------------------------------------------- sampling
Min(a, b) == IF a <= b THEN a ELSE b

\* the shape of a dataframe of the model: its rows, one data column
shape_of(df) == [num_rows |-> Cardinality(df.rows), num_cols |-> 1]

\* dx.sampling.get_df_dimensions: the number of rows and columns
get_df_dimensions(shape) == [num_rows |-> shape.num_rows, num_cols |-> shape.num_cols]

\* dx.sampling.sample_if_too_big: the dataframe cut down to the display
\* limits of the settings; a dataframe within the limits is returned as is
sample_if_too_big(shape) ==
    [num_rows |-> Min(shape.num_rows, settings.DISPLAY_MAX_ROWS),
     num_cols |-> Min(shape.num_cols, settings.DISPLAY_MAX_COLUMNS)]

\* both pairs of dimensions are measured before sampling
dataframe_info_presample(orig_df_dimensions, sampled_df_dimensions) ==
    [orig_num_rows |-> orig_df_dimensions.num_rows,
     orig_num_cols |-> orig_df_dimensions.num_cols,
     truncated_num_rows |-> orig_df_dimensions.num_rows,
     truncated_num_cols |-> orig_df_dimensions.num_cols]

\* format_dx, lines 176-180: the dimensions in the metadata
dataframe_info(orig_df_dimensions, sampled_df_dimensions) ==
    [orig_num_rows |-> orig_df_dimensions.num_rows,
     orig_num_cols |-> orig_df_dimensions.num_cols,
     truncated_num_rows |-> sampled_df_dimensions.num_rows,
     truncated_num_cols |-> sampled_df_dimensions.num_cols]

\* format_dx, lines 169-185: the metadata of a dataframe of the given shape
format_dx_metadata(shape, filters, h) ==
    [applied_filters |-> filters, hash |-> h,
     dataframe_info |-> dataframe_info(get_df_dimensions(shape),
                                       get_df_dimensions(sample_if_too_big(shape)))]

\* ---------------------------------------------------------------- payloads
\* the number of rows of a dataframe
num_rows(df) == Len(df.index[1].values)

\* the names of the columns of a dataframe
column_names(df) == {df.columns[i].name : i \in DOMAIN df.columns}

\* the name pandas gives index level i where a name is needed: its own, or
\* "index" for the only level ("level_0" when a column is named "index"), or
\* "level_<i-1>" for a level of several
level_name(df, i) ==
    IF df.index[i].name # None THEN df.index[i].name
    ELSE IF Len(df.index) = 1
         THEN (IF "index" \in column_names(df) THEN "level_0" ELSE "index")
         ELSE <<"level_0", "level_1">>[i]

\* DataFrame.reset_index(): the levels of the index become the first
\* columns and the index becomes the RangeIndex
reset_index(df) ==
    [index   |-> <<Column(None, RangeIndex(num_rows(df)))>>,
     columns |-> [i \in DOMAIN df.index |->
                      Column(level_name(df, i), df.index[i].values)] \o df.columns]

\* DataFrame.transpose().values.tolist(): one list of values per column
transpose_values_tolist(df) == [i \in DOMAIN df.columns |-> df.columns[i].values]

\* DataFrame.to_dict("records"): one dictionary per row, keyed by the column
\* names; of columns with the same name the last one stays
to_dict_records(df) ==
    [r \in 1..num_rows(df) |->
        [name \in column_names(df) |->
            LET i == CHOOSE j \in DOMAIN df.columns :
                         /\ df.columns[j].name = name
                         /\ \A k \in DOMAIN df.columns :
                                df.columns[k].name = name => k <= j
            IN df.columns[i].values[r]]]

\* pandas build_table_schema(df): one field per index level, then one field
\* per column
build_table_schema(df) ==
    [fields |-> [i \in DOMAIN df.index |-> [name |-> level_name(df, i)]]
                    \o [i \in DOMAIN df.columns |-> [name |-> df.columns[i].name]]]

\* the index is left out of the data
generate_dx_body_data_noindex(df) == transpose_values_tolist(df)

\* generate_dx_body, line 136: df.reset_index().transpose().values.tolist()
generate_dx_body_data(df) == transpose_values_tolist(reset_index(df))

\* generate_dx_body, lines 125-156: the payload and the metadata it returns
generate_dx_body(df, display_id) ==
    [payload  |-> [schema   |-> build_table_schema(df),
                   data     |-> generate_dx_body_data(df),
                   datalink |-> [display_id |-> display_id]],
     metadata |-> [datalink   |-> [applied_filters |-> << >>,
                                   display_id |-> display_id,
                                   dx_settings |-> settings,
                                   sample_history |-> << >>],
                   display_id |-> display_id]]

\* generate_dx_body called on its own, as the tests call it
GenerateDxBody(df, display_id) ==
    /\ pc = "idle"
    /\ ops < MaxOps
    /\ ops' = ops + 1
    /\ sent' = << >>
    /\ raised' = "none"
    /\ last' = [LastNone EXCEPT !.kind = "generate_dx_body",
                                !.frame = df,
                                !.returned = generate_dx_body(df, display_id).payload]
    /\ UNCHANGED <<ENABLE_DATALINK, SUBSET_TO_DATAFRAME_HASH,
                   DATAFRAME_HASH_TO_DISPLAY_ID, SUBSET_FILTERS,
                   DISPLAY_ID_TO_ORIG_METADATA, next_uuid, store, displayed, user_ns,
                   inbox, pc, cur, first_display, failed, writes, settings,
                   display_formatter, environment, dataresource, views>>

\* ---------------------------------------------------------------- render
\* the normalised index and columns are assigned to the caller's dataframe
bind_normalized_in_place(obj) ==
    [caller |-> normalize_index_and_columns(obj),
     local |-> normalize_index_and_columns(obj)]

\* handle_dx_format, lines 69 and 77: obj = normalize_index_and_columns(obj)
\* binds the local name to the dataframe returned; the dataframe of the
\* caller is the one passed in
bind_normalized(obj) ==
    [caller |-> obj, local |-> normalize_index_and_columns(obj)]

\* the hash is taken of the dataframe as passed in
fingerprint_raw(obj) == generate_df_hash(obj)

\* handle_dx_format, lines 77-78: the hash is taken of the normalised dataframe
fingerprint(obj) == generate_df_hash(bind_normalized(obj).local)

\* every render is sent as an update
update_existing_display_always(obj_hash) == TRUE

\* the registry is never consulted: every render is a new display
update_existing_display_never(obj_hash) == FALSE

\* handle_dx_format, line 79
update_existing_display(obj_hash) == obj_hash \in DOMAIN SUBSET_TO_DATAFRAME_HASH

\* the filters recorded for the hash are not looked up
applied_filters_none(obj_hash) == << >>

\* handle_dx_format, line 80: SUBSET_FILTERS.get(obj_hash)
applied_filters(obj_hash) ==
    IF obj_hash \in DOMAIN SUBSET_FILTERS THEN SUBSET_FILTERS[obj_hash] ELSE << >>

\* the guard dropped: every render registers and stores
needs_persisting_always(update) == TRUE

\* handle_dx_format, lines 82 and 107: the guard of register_display_id and
\* of store_in_sqlite
needs_persisting(update) == ~update

\* the handler returns once the sample is displayed, without storing
after_display_return(update) == "idle"

\* handle_dx_format, lines 97-110: where the handler stands once format_dx
\* has displayed the sample
after_display(update) == IF needs_persisting(update) THEN "persist" ELSE "idle"

\* the metadata of the latest render replaces what is stored
store_orig_metadata_overwrite(meta, display_id, metadata) ==
    Put(meta, display_id, metadata)

\* the metadata of a render is never kept
store_orig_metadata_skip(meta, display_id, metadata) == meta

\* format_dx, lines 187-188: the first metadata stored under a display id stays
store_orig_metadata(meta, display_id, metadata) ==
    IF display_id \notin DOMAIN meta THEN Put(meta, display_id, metadata) ELSE meta

\* display() called with update=True whatever the render is
format_dx_displays_as_update(display_id, update, h, filters) ==
    {Display(display_id, TRUE, h, filters, FALSE)}
        \cup (IF ENABLE_DATALINK
              THEN {Display(display_id, TRUE, h, filters, TRUE)} ELSE {})

\* the placeholder is displayed whatever ENABLE_DATALINK is
format_dx_displays_placeholder(display_id, update, h, filters) ==
    {Display(display_id, update, h, filters, FALSE),
     Display(display_id, update, h, filters, TRUE)}

\* format_dx returns without calling display()
format_dx_displays_none(display_id, update, h, filters) == {}

\* format_dx, lines 193-209: the displays sent for one render
format_dx_displays(display_id, update, h, filters) ==
    {Display(display_id, update, h, filters, FALSE)}
        \cup (IF ENABLE_DATALINK
              THEN {Display(display_id, update, h, filters, TRUE)} ELSE {})

\* register_display_id: the hash becomes a registry entry of its own lineage
register_hash(reg, h) == Put(reg, h, h)

\* format_dx ignores the display id it is given
format_dx_display_id_new(display_id) == next_uuid

\* format_dx, line 166: display_id or str(uuid.uuid4())
format_dx_display_id(display_id) == IF display_id = NoId THEN next_uuid ELSE display_id

\* format_dx called with a dataframe, lines 159-211: the dimensions are
\* measured, the dataframe is sampled, the metadata is kept under the
\* display id (a new one when none is given) unless the display id has
\* metadata, and the sample is displayed
FormatDx(shape, update, given_id) ==
    /\ pc = "idle"
    /\ ops < MaxOps
    /\ given_id = NoId => next_uuid <= MaxDisplays
    /\ LET display_id == format_dx_display_id(given_id)
           sampled == sample_if_too_big(shape)
           metadata == format_dx_metadata(shape, << >>, NoHash)
       IN /\ next_uuid' = IF given_id = NoId THEN next_uuid + 1 ELSE next_uuid
          /\ DISPLAY_ID_TO_ORIG_METADATA' =
                 store_orig_metadata(DISPLAY_ID_TO_ORIG_METADATA, display_id, metadata)
          /\ displayed' = displayed
                 \cup format_dx_displays(display_id, update, NoHash, << >>)
          /\ last' = [LastNone EXCEPT !.kind = "format_dx",
                         !.update = update,
                         !.datalink = ENABLE_DATALINK,
                         !.input = shape,
                         !.payload = sampled,
                         !.max_rows = settings.DISPLAY_MAX_ROWS,
                         !.max_columns = settings.DISPLAY_MAX_COLUMNS,
                         !.info = metadata.dataframe_info,
                         !.shown_id = display_id,
                         !.emitted = format_dx_displays(display_id, update, NoHash, << >>)]
    /\ ops' = ops + 1
    /\ sent' = << >>
    /\ raised' = "none"
    /\ UNCHANGED <<ENABLE_DATALINK, SUBSET_TO_DATAFRAME_HASH,
                   DATAFRAME_HASH_TO_DISPLAY_ID, SUBSET_FILTERS, store, user_ns,
                   inbox, pc, cur, first_display, failed, writes, settings,
                   display_formatter, environment, dataresource, views>>

\* ---------------------------------------------------------------- dataresource
\* the shape of a dataframe given with its content
frame_shape(df) == [num_rows |-> num_rows(df), num_cols |-> Len(df.columns)]

\* the dataframe cut to the first rows and columns of a shape
take(df, shape) ==
    [index   |-> [i \in DOMAIN df.index |->
                      Column(df.index[i].name,
                             SubSeq(df.index[i].values, 1, shape.num_rows))],
     columns |-> [i \in 1..shape.num_cols |->
                      Column(df.columns[i].name,
                             SubSeq(df.columns[i].values, 1, shape.num_rows))]]

\* generate_dataresource_body, line 113: df.reset_index().to_dict("records")
generate_dataresource_body_data(df) == to_dict_records(reset_index(df))

\* generate_dataresource_body, lines 103-116
generate_dataresource_body(df, display_id) ==
    [schema   |-> build_table_schema(df),
     data     |-> generate_dataresource_body_data(df),
     datalink |-> [display_id |-> display_id]]

\* dx.utils.formatting.generate_metadata: the metadata of a dataresource
generate_metadata(display_id, info) ==
    [display_id |-> display_id, dataframe_info |-> info]

\* format_dataresource, line 125: display_id or str(uuid.uuid4())
format_dataresource_display_id(display_id) ==
    IF display_id = NoId THEN next_uuid ELSE display_id

\* format_dataresource, lines 144-145 (format_dx, lines 190-191): the body
\* under the media type
under_media_type(media_type, body) == [k \in {media_type} |-> body]

\* format_dataresource, lines 161-173: the display of the payload and the
\* placeholder, which is sent whatever ENABLE_DATALINK is
format_dataresource_displays(display_id, update) ==
    {Display(display_id, update, NoHash, << >>, FALSE),
     Display(display_id, update, NoHash, << >>, TRUE)}

\* format_dataresource, lines 119-175, called with a dataframe
FormatDataresource(df, update, display_id) ==
    /\ pc = "idle"
    /\ ops < MaxOps
    /\ display_id = NoId => next_uuid <= MaxDisplays
    /\ LET id == format_dataresource_display_id(display_id)
           orig_df_dimensions == get_df_dimensions(frame_shape(df))
           sampled == take(df, sample_if_too_big(frame_shape(df)))
           sampled_df_dimensions == get_df_dimensions(frame_shape(sampled))
           payload == generate_dataresource_body(sampled, id)
           metadata == generate_metadata(id,
                           dataframe_info(orig_df_dimensions, sampled_df_dimensions))
       IN /\ next_uuid' = IF display_id = NoId THEN next_uuid + 1 ELSE next_uuid
          /\ DISPLAY_ID_TO_METADATA' =
                 store_orig_metadata(DISPLAY_ID_TO_METADATA, id, metadata)
          /\ LAST_DATARESOURCE_SENT' =
                 Put(LAST_DATARESOURCE_SENT, id, [update |-> update, display_id |-> id])
          /\ displayed' = displayed \cup format_dataresource_displays(id, update)
          /\ last' = [LastNone EXCEPT !.kind = "format_dataresource",
                         !.update = update,
                         !.frame = df,
                         !.returned = under_media_type(DATARESOURCE_MEDIA_TYPE, payload),
                         !.info = metadata.dataframe_info,
                         !.emitted = format_dataresource_displays(id, update)]
    /\ ops' = ops + 1
    /\ sent' = << >>
    /\ raised' = "none"
    /\ UNCHANGED <<ENABLE_DATALINK, SUBSET_TO_DATAFRAME_HASH,
                   DATAFRAME_HASH_TO_DISPLAY_ID, SUBSET_FILTERS,
                   DISPLAY_ID_TO_ORIG_METADATA, store, user_ns, inbox, pc, cur,
                   first_display, failed, writes, settings, display_formatter,
                   environment, views>>

\* ---------------------------------------------------------------- formatters
\* isinstance(obj, tuple(settings.RENDERABLE_OBJECTS)): the dataframes are
\* renderable, an object that only has a repr is not
is_renderable(obj) == DOMAIN obj = {"rows", "index"}

\* no object is handled by dx
format_handles_never(formatter, obj) == FALSE

\* DXDisplayFormatter.format, dx.py line 118, and
\* DXDataResourceDisplayFormatter.format, dataresource.py line 96: the
\* objects the installed formatter handles itself
format_handles(formatter, obj) ==
    /\ formatter \in {"DXDisplayFormatter", "DXDataResourceDisplayFormatter"}
    /\ is_renderable(obj)

\* what format() is about to return for an object: dx.py lines 119-122
FormatCall(obj, kind) ==
    [LastNone EXCEPT !.kind = kind,
                     !.formatter = display_formatter,
                     !.renderable = is_renderable(obj),
                     !.handled = format_handles(display_formatter, obj),
                     !.delegated = ~format_handles(display_formatter, obj),
                     !.bundle = IF format_handles(display_formatter, obj)
                                THEN "({}, {})" ELSE "DEFAULT_IPYTHON_DISPLAY_FORMATTER.format"]

\* DXDisplayFormatter.format, line 122, DXDataResourceDisplayFormatter.format,
\* line 100, and the default formatter once reset() has installed it: the
\* object is formatted by the default IPython formatter
FormatDefault(obj) ==
    /\ pc = "idle"
    /\ ops < MaxOps
    /\ ~format_handles(display_formatter, obj)
    /\ ops' = ops + 1
    /\ sent' = << >>
    /\ raised' = "none"
    /\ last' = FormatCall(obj, "format")
    /\ UNCHANGED <<ENABLE_DATALINK, SUBSET_TO_DATAFRAME_HASH,
                   DATAFRAME_HASH_TO_DISPLAY_ID, SUBSET_FILTERS,
                   DISPLAY_ID_TO_ORIG_METADATA, next_uuid, store, displayed, user_ns,
                   inbox, pc, cur, first_display, failed, writes, settings,
                   display_formatter, environment, dataresource, views>>

\* the registry is consulted although ENABLE_DATALINK is off
datalink_off_args_registry(obj_hash) ==
    [update |-> obj_hash \in DOMAIN SUBSET_TO_DATAFRAME_HASH,
     display_id |-> IF obj_hash \in DOMAIN SUBSET_TO_DATAFRAME_HASH
                    THEN DATAFRAME_HASH_TO_DISPLAY_ID[SUBSET_TO_DATAFRAME_HASH[obj_hash]]
                    ELSE NoId]

\* handle_dx_format, lines 70-73, and handle_dataresource_format, lines
\* 65-68: with ENABLE_DATALINK off the formatting function is called with
\* the dataframe only, so update is False and display_id is None
datalink_off_args(obj_hash) == [update |-> FALSE, display_id |-> NoId]

\* handle_dx_format with ENABLE_DATALINK off, lines 68-74, and format_dx
RenderPlain(obj) ==
    /\ format_handles(display_formatter, obj)
    /\ display_formatter = "DXDisplayFormatter"
    /\ UNCHANGED <<settings, display_formatter, environment, dataresource, views>>
    /\ pc = "idle"
    /\ ops < MaxOps
    /\ ~ENABLE_DATALINK
    /\ next_uuid <= MaxDisplays
    /\ LET frames == bind_normalized(obj)
           df == frames.local
           h == generate_df_hash(df)
           args == datalink_off_args(fingerprint(obj))
           display_id == format_dx_display_id(args.display_id)
       IN /\ next_uuid' = next_uuid + 1
          /\ DISPLAY_ID_TO_ORIG_METADATA' =
                 store_orig_metadata(DISPLAY_ID_TO_ORIG_METADATA, display_id,
                     format_dx_metadata(shape_of(df), << >>, h))
          /\ displayed' = displayed \cup
                 format_dx_displays(display_id, args.update, h, << >>)
          /\ last' = [FormatCall(obj, "render") EXCEPT
                         !.update = args.update,
                         !.datalink = FALSE,
                         !.shown_id = display_id,
                         !.emitted = format_dx_displays(display_id, args.update, h, << >>),
                         !.given = obj,
                         !.after = frames.caller,
                         !.known_before = h \in DOMAIN first_display,
                         !.same_id = (h \in DOMAIN first_display
                                          => first_display[h] = display_id)]
    /\ ops' = ops + 1
    /\ sent' = << >>
    /\ raised' = "none"
    /\ UNCHANGED <<ENABLE_DATALINK, SUBSET_TO_DATAFRAME_HASH,
                   DATAFRAME_HASH_TO_DISPLAY_ID, SUBSET_FILTERS, store, user_ns,
                   inbox, pc, cur, first_display, failed, writes>>

\* handle_dx_format with ENABLE_DATALINK on, lines 76-103: hash, registry
\* lookup, registration of a new hash, display of the sample
RenderDisplay(obj) ==
    /\ format_handles(display_formatter, obj)
    /\ display_formatter = "DXDisplayFormatter"
    /\ UNCHANGED <<settings, display_formatter, environment, dataresource, views>>
    /\ pc = "idle"
    /\ ops < MaxOps
    /\ ENABLE_DATALINK
    /\ LET frames == bind_normalized(obj)
           df == frames.local
           obj_hash == fingerprint(obj)
           update == update_existing_display(obj_hash)
           filters == applied_filters(obj_hash)
           display_id == get_display_id(obj_hash)
           shown_id == format_dx_display_id(display_id)
           minted == ~KnownHash(obj_hash)
       IN /\ minted => next_uuid <= MaxDisplays
          /\ next_uuid' = IF minted THEN next_uuid + 1 ELSE next_uuid
          /\ IF needs_persisting(update)
             THEN /\ SUBSET_TO_DATAFRAME_HASH' =
                         register_hash(SUBSET_TO_DATAFRAME_HASH, obj_hash)
                  /\ DATAFRAME_HASH_TO_DISPLAY_ID' =
                         Put(DATAFRAME_HASH_TO_DISPLAY_ID, obj_hash, display_id)
             ELSE UNCHANGED <<SUBSET_TO_DATAFRAME_HASH, DATAFRAME_HASH_TO_DISPLAY_ID>>
          /\ DISPLAY_ID_TO_ORIG_METADATA' =
                 store_orig_metadata(DISPLAY_ID_TO_ORIG_METADATA, shown_id,
                     format_dx_metadata(shape_of(df), filters, obj_hash))
          /\ displayed' = displayed
                 \cup format_dx_displays(shown_id, update, obj_hash, filters)
          /\ pc' = after_display(update)
          /\ cur' = IF pc' = "idle" THEN NoCur
                    ELSE [hash |-> obj_hash, display_id |-> display_id,
                          table |-> generate_sql_table_name(display_id),
                          rows |-> df.rows]
          /\ first_display' = IF obj_hash \in DOMAIN first_display THEN first_display
                              ELSE Put(first_display, obj_hash, shown_id)
          /\ last' = [FormatCall(obj, "render") EXCEPT
                         !.update = update,
                         !.datalink = TRUE,
                         !.shown_id = shown_id,
                         !.given = obj,
                         !.after = frames.caller,
                         !.hash = obj_hash,
                         !.emitted = format_dx_displays(shown_id, update, obj_hash, filters),
                         !.fresh_id =
                             /\ shown_id \notin RegisteredDisplays
                             /\ shown_id \notin DOMAIN DISPLAY_ID_TO_ORIG_METADATA
                             /\ \A r \in displayed : r.display_id # shown_id,
                         !.known_before = obj_hash \in DOMAIN first_display,
                         !.same_id = (obj_hash \in DOMAIN first_display
                                          => first_display[obj_hash] = shown_id)]
    /\ ops' = ops + 1
    /\ sent' = << >>
    /\ raised' = "none"
    /\ UNCHANGED <<ENABLE_DATALINK, SUBSET_FILTERS, store, user_ns, inbox, failed,
                   writes>>

\* dx.utils.tracking.DXDataFrameCache: the normalised dataframe, its hash,
\* the display id of the hash (a new one for a hash not seen) and the name of
\* its table
DXDataFrameCache(obj) ==
    [df |-> bind_normalized(obj).local,
     hash |-> fingerprint(obj),
     display_id |-> get_display_id(fingerprint(obj)),
     sql_table |-> generate_sql_table_name(get_display_id(fingerprint(obj)))]

\* handle_dataresource_format with ENABLE_DATALINK off, lines 63-69, and
\* format_dataresource
RenderSimplePlain(obj) ==
    /\ format_handles(display_formatter, obj)
    /\ display_formatter = "DXDataResourceDisplayFormatter"
    /\ pc = "idle"
    /\ ops < MaxOps
    /\ ~ENABLE_DATALINK
    /\ next_uuid <= MaxDisplays
    /\ LET frames == bind_normalized(obj)
           df == frames.local
           args == datalink_off_args(fingerprint(obj))
           display_id == format_dataresource_display_id(args.display_id)
           dims == get_df_dimensions(shape_of(df))
           sampled == get_df_dimensions(sample_if_too_big(shape_of(df)))
       IN /\ next_uuid' = next_uuid + 1
          /\ DISPLAY_ID_TO_METADATA' =
                 store_orig_metadata(DISPLAY_ID_TO_METADATA, display_id,
                     generate_metadata(display_id, dataframe_info(dims, sampled)))
          /\ LAST_DATARESOURCE_SENT' =
                 Put(LAST_DATARESOURCE_SENT, display_id,
                     [update |-> args.update, display_id |-> display_id])
          /\ displayed' = displayed \cup
                 format_dataresource_displays(display_id, args.update)
          /\ last' = [FormatCall(obj, "render") EXCEPT
                         !.update = args.update,
                         !.datalink = FALSE,
                         !.shown_id = display_id,
                         !.emitted = format_dataresource_displays(display_id, args.update),
                         !.given = obj,
                         !.after = frames.caller]
    /\ ops' = ops + 1
    /\ sent' = << >>
    /\ raised' = "none"
    /\ UNCHANGED <<ENABLE_DATALINK, SUBSET_TO_DATAFRAME_HASH,
                   DATAFRAME_HASH_TO_DISPLAY_ID, SUBSET_FILTERS,
                   DISPLAY_ID_TO_ORIG_METADATA, store, user_ns, inbox, pc, cur,
                   first_display, failed, writes, settings, display_formatter,
                   environment, views>>

\* handle_dataresource_format with ENABLE_DATALINK on, lines 71-88: the
\* cache of the dataframe, the registry lookup, the display, and the store
\* of a dataframe not seen before
RenderSimpleDisplay(obj) ==
    /\ format_handles(display_formatter, obj)
    /\ display_formatter = "DXDataResourceDisplayFormatter"
    /\ pc = "idle"
    /\ ops < MaxOps
    /\ ENABLE_DATALINK
    /\ LET dfc == DXDataFrameCache(obj)
           update == update_existing_display(dfc.hash)
           minted == ~KnownHash(dfc.hash)
           dims == get_df_dimensions(shape_of(dfc.df))
           sampled == get_df_dimensions(sample_if_too_big(shape_of(dfc.df)))
       IN /\ minted => next_uuid <= MaxDisplays
          /\ next_uuid' = IF minted THEN next_uuid + 1 ELSE next_uuid
          /\ IF needs_persisting(update)
             THEN /\ SUBSET_TO_DATAFRAME_HASH' =
                         register_hash(SUBSET_TO_DATAFRAME_HASH, dfc.hash)
                  /\ DATAFRAME_HASH_TO_DISPLAY_ID' =
                         Put(DATAFRAME_HASH_TO_DISPLAY_ID, dfc.hash, dfc.display_id)
             ELSE UNCHANGED <<SUBSET_TO_DATAFRAME_HASH, DATAFRAME_HASH_TO_DISPLAY_ID>>
          /\ DISPLAY_ID_TO_METADATA' =
                 store_orig_metadata(DISPLAY_ID_TO_METADATA, dfc.display_id,
                     generate_metadata(dfc.display_id, dataframe_info(dims, sampled)))
          /\ LAST_DATARESOURCE_SENT' =
                 Put(LAST_DATARESOURCE_SENT, dfc.display_id,
                     [update |-> update, display_id |-> dfc.display_id])
          /\ displayed' = displayed \cup
                 format_dataresource_displays(dfc.display_id, update)
          /\ pc' = after_display(update)
          /\ cur' = IF pc' = "idle" THEN NoCur
                    ELSE [hash |-> dfc.hash, display_id |-> dfc.display_id,
                          table |-> dfc.sql_table, rows |-> dfc.df.rows]
          /\ first_display' = IF dfc.hash \in DOMAIN first_display THEN first_display
                              ELSE Put(first_display, dfc.hash, dfc.display_id)
          /\ last' = [FormatCall(obj, "render") EXCEPT
                         !.update = update,
                         !.datalink = TRUE,
                         !.shown_id = dfc.display_id,
                         !.emitted = format_dataresource_displays(dfc.display_id, update),
                         !.given = obj,
                         !.after = obj,
                         !.hash = dfc.hash]
    /\ ops' = ops + 1
    /\ sent' = << >>
    /\ raised' = "none"
    /\ UNCHANGED <<ENABLE_DATALINK, SUBSET_FILTERS, DISPLAY_ID_TO_ORIG_METADATA,
                   store, user_ns, inbox, failed, writes, settings,
                   display_formatter, environment, views>>

\* store_in_sqlite, called at handle_dx_format line 108: the write of the
\* whole table starts
StoreBegin ==
    /\ UNCHANGED <<settings, display_formatter, environment, dataresource, views>>
    /\ pc = "persist"
    /\ store' = [store EXCEPT ![cur.table] = [status |-> "writing", rows |-> {}]]
    /\ writes' = [writes EXCEPT ![cur.hash] = @ + 1]
    /\ last' = [last EXCEPT !.wrote = TRUE]
    /\ pc' = "writing"
    /\ UNCHANGED <<ENABLE_DATALINK, SUBSET_TO_DATAFRAME_HASH,
                   DATAFRAME_HASH_TO_DISPLAY_ID, SUBSET_FILTERS,
                   DISPLAY_ID_TO_ORIG_METADATA, next_uuid, displayed, user_ns, inbox,
                   cur, sent, raised, ops, first_display, failed>>

\* store_in_sqlite: the write completes and the table is published
StoreCommit ==
    /\ UNCHANGED <<settings, display_formatter, environment, dataresource, views>>
    /\ pc = "writing"
    /\ store' = [store EXCEPT ![cur.table] = [status |-> "complete", rows |-> cur.rows]]
    /\ pc' = "idle"
    /\ cur' = NoCur
    /\ UNCHANGED <<ENABLE_DATALINK, SUBSET_TO_DATAFRAME_HASH,
                   DATAFRAME_HASH_TO_DISPLAY_ID, SUBSET_FILTERS,
                   DISPLAY_ID_TO_ORIG_METADATA, next_uuid, displayed, user_ns, inbox,
                   sent, raised, ops, last, first_display, failed, writes>>

\* store_in_sqlite: the write fails; nothing of the table stays and the
\* StorageError leaves handle_dx_format, which has no handler for it
StoreFail ==
    /\ UNCHANGED <<settings, display_formatter, environment, dataresource, views>>
    /\ pc = "writing"
    /\ store' = [store EXCEPT ![cur.table] = [status |-> "absent", rows |-> {}]]
    /\ raised' = "StorageError"
    /\ failed' = failed \cup {cur.display_id}
    /\ last' = [last EXCEPT !.error = "StorageError"]
    /\ pc' = "idle"
    /\ cur' = NoCur
    /\ UNCHANGED <<ENABLE_DATALINK, SUBSET_TO_DATAFRAME_HASH,
                   DATAFRAME_HASH_TO_DISPLAY_ID, SUBSET_FILTERS,
                   DISPLAY_ID_TO_ORIG_METADATA, next_uuid, displayed, user_ns, inbox,
                   sent, ops, first_display, writes>>

\* ---------------------------------------------------------------- filters
\* a clause compiles when its range is well formed
ValidClause(c) == c.lo <= c.hi

\* the filter compiler: every clause must compile
ValidFilters(filters) == \A i \in DOMAIN filters : ValidClause(filters[i])

\* rows that satisfy the conjunction of the clauses
Matching(rows, filters) ==
    {v \in rows : \A i \in DOMAIN filters : filters[i].lo <= v /\ v <= filters[i].hi}

\* LIMIT n: the first n rows in table order
FirstN(rows, n) == {v \in rows : Cardinality({w \in rows : w < v}) < n}

\* ---------------------------------------------------------------- comm messages
ResampleMsg(d, f, has, wf) ==
    [display_id |-> d, filters |-> f, has_filters |-> has, wellformed |-> wf]

\* requests with a display id and filters, one without display id, and for
\* each display id one without filters and one that does not parse
ResampleMsgs ==
    {ResampleMsg(d, f, TRUE, TRUE) : d \in DisplayIds, f \in FilterLists}
        \cup {ResampleMsg(NoId, << >>, TRUE, TRUE)}
        \cup {ResampleMsg(d, << >>, FALSE, TRUE) : d \in DisplayIds}
        \cup {ResampleMsg(d, << >>, TRUE, FALSE) : d \in DisplayIds}

AssignMsg(d, n, f, has, size) ==
    [display_id |-> d, variable_name |-> n, filters |-> f, has_filters |-> has,
     sample_size |-> size]

\* complete requests, the empty message, and requests with one key missing
AssignMsgs ==
    {AssignMsg(d, n, f, TRUE, k) :
         d \in DisplayIds, n \in ReqNames, f \in FilterLists, k \in Limits}
        \cup {AssignMsg(NoId, NoName, << >>, FALSE, NoLimit),
              AssignMsg(NoId, <<"x">>, << >>, TRUE, 1),
              AssignMsg(1, NoName, << >>, TRUE, 1),
              AssignMsg(1, <<"x">>, << >>, FALSE, 1),
              AssignMsg(1, <<"x">>, << >>, TRUE, NoLimit)}

\* the frontend sends a resample request; it may do so while a render that
\* has displayed the sample is still writing the table.  The queue keeps,
\* for each waiting request, the display id whose table was being written
\* when it was sent; the content of the request is read when it is handled.
SendResample ==
    /\ UNCHANGED <<settings, display_formatter, environment, dataresource, views>>
    /\ ops < MaxOps
    /\ Len(inbox) < MaxInbox
    /\ inbox' = Append(inbox, IF pc = "idle" THEN NoId ELSE cur.display_id)
    /\ UNCHANGED <<ENABLE_DATALINK, SUBSET_TO_DATAFRAME_HASH,
                   DATAFRAME_HASH_TO_DISPLAY_ID, SUBSET_FILTERS,
                   DISPLAY_ID_TO_ORIG_METADATA, next_uuid, store, displayed, user_ns,
                   pc, cur, sent, raised, ops, last, first_display, failed, writes>>

\* ---------------------------------------------------------------- resample
\* the callback without its try: the exception leaves it
resampler_recv_nocatch(err) ==
    [sent |-> << >>, raised |-> IF err = "ignored" THEN "none" ELSE err]

\* the callback with an except branch that sends nothing
resampler_recv_silent(err) == [sent |-> << >>, raised |-> "none"]

\* resampler._recv, lines 19-30: what the callback sends and lets escape when
\* handle_resample_comm ends with err ("none", "ignored" or an exception)
resampler_recv(err) ==
    IF err \in {"none", "ignored"}
    THEN [sent |-> << >>, raised |-> "none"]
    ELSE [sent |-> <<Envelope("error", err, "traceback", NoName)>>, raised |-> "none"]

\* DEXResampleMessage.parse_obj: a message that is no resample message fails
parse_obj(m) == IF m.wellformed THEN "none" ELSE "ValidationError"

\* dx.filtering: resolve the display id, compile the filters, query the
\* store; the exception the request ends with, "none" when it has a result
resample_error(display_id, filters) ==
    IF display_id \notin RegisteredDisplays THEN "UnknownDisplayError"
    ELSE IF ~ValidFilters(filters) THEN "InvalidFilterError"
    ELSE IF store[generate_sql_table_name(display_id)].status # "complete"
         THEN "StorageError"
    ELSE "none"

\* handle_resample_comm, lines 35-43: how the handling of m ends
handle_resample_comm(m) ==
    IF m.display_id = NoId \/ ~m.has_filters THEN "ignored"
    ELSE IF parse_obj(m) # "none" THEN parse_obj(m)
    ELSE resample_error(m.display_id, m.filters)

RecvResample(m) ==
    /\ UNCHANGED <<settings, display_formatter, environment, dataresource, views>>
    /\ pc = "idle"
    /\ ops < MaxOps
    /\ inbox # << >>
    /\ inbox' = Tail(inbox)
    /\ LET err == handle_resample_comm(m)
           cb == resampler_recv(err)
           table == generate_sql_table_name(m.display_id)
           reads == err \in {"none", "StorageError"}
           result == [rows |-> Matching(store[table].rows, m.filters), index |-> "range"]
           new_hash == generate_df_hash(normalize_index_and_columns(result))
           link == ~KnownHash(new_hash)
           S2D == IF link THEN Put(SUBSET_TO_DATAFRAME_HASH, new_hash, RootHash(m.display_id))
                  ELSE SUBSET_TO_DATAFRAME_HASH
           display_id == DATAFRAME_HASH_TO_DISPLAY_ID[S2D[new_hash]]
           filters == IF link THEN m.filters ELSE applied_filters(new_hash)
       IN /\ sent' = cb.sent
          /\ raised' = cb.raised
          /\ IF err = "none"
             THEN /\ SUBSET_TO_DATAFRAME_HASH' = S2D
                  /\ SUBSET_FILTERS' = IF link THEN Put(SUBSET_FILTERS, new_hash, m.filters)
                                       ELSE SUBSET_FILTERS
                  /\ first_display' = IF new_hash \in DOMAIN first_display THEN first_display
                                      ELSE Put(first_display, new_hash, display_id)
                  /\ DISPLAY_ID_TO_ORIG_METADATA' =
                         store_orig_metadata(DISPLAY_ID_TO_ORIG_METADATA, display_id,
                             format_dx_metadata(shape_of(result), filters, new_hash))
                  /\ displayed' = displayed
                         \cup format_dx_displays(display_id, TRUE, new_hash, filters)
             ELSE UNCHANGED <<SUBSET_TO_DATAFRAME_HASH, SUBSET_FILTERS, first_display,
                              DISPLAY_ID_TO_ORIG_METADATA, displayed>>
          /\ last' = [LastNone EXCEPT !.kind = "resample",
                         !.carries = (m.display_id # NoId /\ m.has_filters),
                         !.parsed = m.wellformed,
                         !.valid = (m.wellformed /\ ValidFilters(m.filters)),
                         !.registered = (m.display_id \in RegisteredDisplays),
                         !.degraded = (m.display_id \in failed),
                         !.error = err,
                         !.observed = IF reads THEN store[table].status ELSE "none",
                         !.known_before = (err = "none" /\ new_hash \in DOMAIN first_display),
                         !.same_id = (err = "none" /\ new_hash \in DOMAIN first_display
                                          => first_display[new_hash] = display_id),
                         !.result_ok = (err = "none" =>
                             result.rows = Matching(RootHash(m.display_id)[2], m.filters)),
                         !.in_flight = (m.display_id # NoId /\ Head(inbox) = m.display_id)]
    /\ ops' = ops + 1
    /\ UNCHANGED <<ENABLE_DATALINK, DATAFRAME_HASH_TO_DISPLAY_ID, next_uuid, store,
                   user_ns, pc, cur, failed, writes>>

\* ---------------------------------------------------------------- assignment
\* the suffix loop left out: the first suffix is taken as it is
free_suffix_noloop(variable_name, suffix, ns) == suffix

\* the requested name used as it is
check_variable_name_asis(variable_name, ns) == variable_name

RECURSIVE free_suffix(_, _, _)
\* check_variable_name, lines 78-80: the loop over the suffixes
free_suffix(variable_name, suffix, ns) ==
    IF Append(variable_name, suffix) \in ns
    THEN free_suffix(variable_name, suffix + 1, ns)
    ELSE suffix

\* check_variable_name, lines 72-82
check_variable_name(variable_name, ns) ==
    IF variable_name \in ns
    THEN Append(variable_name, free_suffix(variable_name, 1, ns))
    ELSE variable_name

\* comm_log, lines 14-17
comm_log(text, name) == Envelope("", "", text, name)

\* dataframe_assignment._recv, lines 26-29: what the callback has sent and
\* what it lets escape when handle_assignment_comm sent log and ended with err
assignment_recv(log, err) ==
    [sent |-> log, raised |-> IF err = "ignored" THEN "none" ELSE err]

\* DEXFilterSettings(filters=...).to_sql_query(): the filter compiler
to_sql_query(filters) == IF ValidFilters(filters) THEN "none" ELSE "InvalidFilterError"

\* the clauses that do not compile are left out of the query
sql_filter_valid_only(filters, sample_size) ==
    [error |-> "none", where |-> SelectSeq(filters, ValidClause), limit |-> sample_size]

\* the filters are not compiled: every query is SELECT * ... LIMIT n
sql_filter_unfiltered(filters, sample_size) ==
    [error |-> to_sql_query(filters), where |-> << >>, limit |-> sample_size]

\* handle_assignment_comm, lines 48-52: the query text, "SELECT * FROM t
\* LIMIT n" for no filters and "SELECT * FROM t WHERE ... LIMIT n" with the
\* compiled filters; error is the exception of the compilation
sql_filter(filters, sample_size) ==
    IF filters = << >>
    THEN [error |-> "none", where |-> << >>, limit |-> sample_size]
    ELSE [error |-> to_sql_query(filters),
          where |-> IF to_sql_query(filters) = "none" THEN filters ELSE << >>,
          limit |-> sample_size]

\* handle_assignment_comm, lines 39-58: how the handling of m ends before
\* the binding
handle_assignment_outcome(m) ==
    IF /\ m.display_id = NoId /\ m.variable_name = NoName
       /\ ~m.has_filters /\ m.sample_size = NoLimit THEN "ignored"
    ELSE IF m.display_id = NoId \/ m.variable_name = NoName THEN "ignored"
    ELSE IF ~m.has_filters \/ m.sample_size = NoLimit THEN "KeyError"
    ELSE IF sql_filter(m.filters, m.sample_size).error # "none"
         THEN sql_filter(m.filters, m.sample_size).error
    ELSE resample_error(m.display_id, << >>)

RecvAssignment(m) ==
    /\ UNCHANGED <<settings, display_formatter, environment, dataresource, views>>
    /\ pc = "idle"
    /\ ops < MaxOps
    /\ LET err == handle_assignment_outcome(m)
           table == generate_sql_table_name(m.display_id)
           sql == sql_filter(m.filters, m.sample_size)
           queried == err \in {"none", "StorageError"}
           sampled_df == FirstN(Matching(store[table].rows, sql.where), sql.limit)
           free_variable_name == check_variable_name(m.variable_name, DOMAIN user_ns)
           log == IF err = "none"
                  THEN <<comm_log("received", NoName),
                         comm_log("assigning", free_variable_name)>>
                  ELSE <<comm_log("received", NoName)>>
           cb == assignment_recv(log, err)
       IN /\ sent' = cb.sent
          /\ raised' = cb.raised
          /\ user_ns' = IF err = "none"
                        THEN Put(user_ns, free_variable_name,
                                 [rows |-> sampled_df, seq |-> ops + 1])
                        ELSE user_ns
          /\ last' = [LastNone EXCEPT !.kind = "assign",
                         !.carries = (m.display_id # NoId /\ m.variable_name # NoName),
                         !.error = err,
                         !.registered = (m.display_id \in RegisteredDisplays),
                         !.filters = m.filters,
                         !.queried = queried,
                         !.where = IF queried THEN sql.where ELSE << >>,
                         !.limit = IF queried THEN sql.limit ELSE NoLimit,
                         !.bound = (user_ns' # user_ns),
                         !.result_ok = (err = "none" =>
                             sampled_df = FirstN(Matching(RootHash(m.display_id)[2],
                                                          m.filters), m.sample_size)),
                         !.requested = IF err = "none" THEN m.variable_name ELSE NoName,
                         !.free_name = IF err = "none" THEN free_variable_name ELSE NoName,
                         !.ns_before = IF err = "none" THEN DOMAIN user_ns ELSE {}]
    /\ ops' = ops + 1
    /\ UNCHANGED <<ENABLE_DATALINK, SUBSET_TO_DATAFRAME_HASH,
                   DATAFRAME_HASH_TO_DISPLAY_ID, SUBSET_FILTERS,
                   DISPLAY_ID_TO_ORIG_METADATA, next_uuid, store, displayed, inbox, pc,
                   cur, first_display, failed, writes>>

\* settings_context(enable_datalink=...): the setting is switched
SetDatalink ==
    /\ UNCHANGED <<settings, display_formatter, environment, dataresource, views>>
    /\ pc = "idle"
    /\ ops < MaxOps
    /\ ENABLE_DATALINK' = ~ENABLE_DATALINK
    /\ UNCHANGED <<SUBSET_TO_DATAFRAME_HASH, DATAFRAME_HASH_TO_DISPLAY_ID,
                   SUBSET_FILTERS, DISPLAY_ID_TO_ORIG_METADATA, next_uuid, store,
                   displayed, user_ns, inbox, pc, cur, sent, raised, ops, last,
                   first_display, failed, writes>>

\* settings_context(display_max_rows=..., display_max_columns=...)
SetDisplayLimits(max_rows, max_columns) ==
    /\ pc = "idle"
    /\ ops < MaxOps
    /\ settings' = [settings EXCEPT !.DISPLAY_MAX_ROWS = max_rows,
                                    !.DISPLAY_MAX_COLUMNS = max_columns]
    /\ ops' = ops + 1
    /\ sent' = << >>
    /\ raised' = "none"
    /\ last' = [LastNone EXCEPT !.kind = "settings"]
    /\ UNCHANGED <<ENABLE_DATALINK, SUBSET_TO_DATAFRAME_HASH,
                   DATAFRAME_HASH_TO_DISPLAY_ID, SUBSET_FILTERS,
                   DISPLAY_ID_TO_ORIG_METADATA, next_uuid, store, displayed, user_ns,
                   inbox, pc, cur, first_display, failed, writes, display_formatter,
                   environment, dataresource, views>>

\* ---------------------------------------------------------------- display modes
\* what register(), deregister() and reset() leave alone
ModeFrame ==
    /\ pc = "idle"
    /\ ops < MaxOps
    /\ ops' = ops + 1
    /\ sent' = << >>
    /\ UNCHANGED <<ENABLE_DATALINK, SUBSET_TO_DATAFRAME_HASH,
                   DATAFRAME_HASH_TO_DISPLAY_ID, SUBSET_FILTERS,
                   DISPLAY_ID_TO_ORIG_METADATA, next_uuid, store, displayed, user_ns,
                   inbox, pc, cur, first_display, failed, writes, environment, dataresource, views>>

\* what the last call of register(), deregister() or reset() was given
ModeCall(kind, ipython_shell) ==
    [LastNone EXCEPT !.kind = kind,
                     !.shell_given = (ipython_shell # None),
                     !.running = (get_ipython # None)]

\* ipython = ipython_shell or get_ipython()
shell_or_get_ipython(ipython_shell) ==
    IF ipython_shell # None THEN ipython_shell ELSE get_ipython

\* register, dx.py lines 219-220: the early return
register_returns(ipython_shell) == get_ipython = None /\ ipython_shell = None

\* register, dx.py lines 214-241
register(ipython_shell) ==
    /\ ModeFrame
    /\ raised' = "none"
    /\ IF register_returns(ipython_shell)
       THEN UNCHANGED <<settings, display_formatter>>
       ELSE /\ settings' = [settings EXCEPT
                    !.DISPLAY_MODE = "enhanced",
                    !.DISPLAY_MAX_ROWS = DX_DISPLAY_MAX_ROWS,
                    !.DISPLAY_MAX_COLUMNS = DX_DISPLAY_MAX_COLUMNS,
                    !.MEDIA_TYPE = DX_MEDIA_TYPE,
                    !.FLATTEN_INDEX_VALUES = dx_settings.DX_FLATTEN_INDEX_VALUES,
                    !.FLATTEN_COLUMN_VALUES = dx_settings.DX_FLATTEN_COLUMN_VALUES,
                    !.STRINGIFY_INDEX_VALUES = dx_settings.DX_STRINGIFY_INDEX_VALUES,
                    !.STRINGIFY_COLUMN_VALUES = dx_settings.DX_STRINGIFY_COLUMN_VALUES]
            /\ display_formatter' = "DXDisplayFormatter"
    /\ last' = ModeCall("register", ipython_shell)

\* deregister, dataresource.py lines 184-185: the early return
deregister_returns(ipython_shell) == get_ipython = None /\ ipython_shell = None

\* deregister, dataresource.py lines 178-207
deregister(ipython_shell) ==
    /\ ModeFrame
    /\ raised' = "none"
    /\ IF deregister_returns(ipython_shell)
       THEN UNCHANGED <<settings, display_formatter>>
       ELSE /\ settings' = [settings EXCEPT
                    !.DISPLAY_MODE = "simple",
                    !.DISPLAY_MAX_ROWS = DATARESOURCE_DISPLAY_MAX_ROWS,
                    !.DISPLAY_MAX_COLUMNS = DATARESOURCE_DISPLAY_MAX_COLUMNS,
                    !.MEDIA_TYPE = DATARESOURCE_MEDIA_TYPE,
                    !.FLATTEN_INDEX_VALUES =
                        get_dataresource_settings.DATARESOURCE_FLATTEN_INDEX_VALUES,
                    !.FLATTEN_COLUMN_VALUES =
                        get_dataresource_settings.DATARESOURCE_FLATTEN_COLUMN_VALUES,
                    !.STRINGIFY_INDEX_VALUES =
                        get_dataresource_settings.DATARESOURCE_STRINGIFY_INDEX_VALUES,
                    !.STRINGIFY_COLUMN_VALUES =
                        get_dataresource_settings.DATARESOURCE_STRINGIFY_COLUMN_VALUES]
            /\ display_formatter' = "DXDataResourceDisplayFormatter"
    /\ last' = ModeCall("deregister", ipython_shell)

\* deregister of formatters/simple.py, lines 40-70: it applies its own limits
\* and MAX_STRING_LENGTH and installs the DXDisplayFormatter of
\* dx.formatters.main
simple_deregister(ipython_shell) ==
    /\ ModeFrame
    /\ raised' = "none"
    /\ IF get_ipython = None /\ ipython_shell = None
       THEN UNCHANGED <<settings, display_formatter>>
       ELSE /\ settings' = [settings EXCEPT
                    !.DISPLAY_MODE = "simple",
                    !.DISPLAY_MAX_ROWS = SIMPLE_DISPLAY_MAX_ROWS,
                    !.DISPLAY_MAX_COLUMNS = SIMPLE_DISPLAY_MAX_COLUMNS,
                    !.MAX_STRING_LENGTH = SIMPLE_MAX_STRING_LENGTH,
                    !.MEDIA_TYPE = DATARESOURCE_MEDIA_TYPE,
                    !.FLATTEN_INDEX_VALUES =
                        get_dataresource_settings.DATARESOURCE_FLATTEN_INDEX_VALUES,
                    !.FLATTEN_COLUMN_VALUES =
                        get_dataresource_settings.DATARESOURCE_FLATTEN_COLUMN_VALUES,
                    !.STRINGIFY_INDEX_VALUES =
                        get_dataresource_settings.DATARESOURCE_STRINGIFY_INDEX_VALUES,
                    !.STRINGIFY_COLUMN_VALUES =
                        get_dataresource_settings.DATARESOURCE_STRINGIFY_COLUMN_VALUES]
            /\ display_formatter' = "main.DXDisplayFormatter"
    /\ last' = ModeCall("simple_deregister", ipython_shell)

\* reset, main.py lines 45-46: the early return tests the flag set when dx
\* was imported
reset_returns(ipython_shell) == ~IN_IPYTHON_ENV /\ ipython_shell = None

\* reset, main.py lines 49-53: the settings it assigns
reset_settings(current) ==
    [current EXCEPT !.DISPLAY_MODE = "plain",
                    !.DISPLAY_MAX_COLUMNS = PANDAS_DISPLAY_MAX_COLUMNS,
                    !.DISPLAY_MAX_ROWS = PANDAS_DISPLAY_MAX_ROWS,
                    !.MEDIA_TYPE = PANDAS_MEDIA_TYPE]

\* reset() also empties the registry
reset_clearing(ipython_shell) ==
    /\ pc = "idle"
    /\ ops < MaxOps
    /\ ops' = ops + 1
    /\ sent' = << >>
    /\ raised' = "none"
    /\ SUBSET_TO_DATAFRAME_HASH' = << >>
    /\ DATAFRAME_HASH_TO_DISPLAY_ID' = << >>
    /\ settings' = reset_settings(settings)
    /\ display_formatter' = "DEFAULT_IPYTHON_DISPLAY_FORMATTER"
    /\ last' = ModeCall("reset", ipython_shell)
    /\ UNCHANGED <<ENABLE_DATALINK, SUBSET_FILTERS, DISPLAY_ID_TO_ORIG_METADATA,
                   next_uuid, store, displayed, user_ns, inbox, pc, cur,
                   first_display, failed, writes, environment, dataresource, views>>

\* reset, main.py lines 40-59; with no shell to assign to, line 59 raises
\* after the settings are changed
reset(ipython_shell) ==
    /\ ModeFrame
    /\ IF reset_returns(ipython_shell)
       THEN /\ raised' = "none"
            /\ UNCHANGED <<settings, display_formatter>>
       ELSE /\ settings' = reset_settings(settings)
            /\ IF shell_or_get_ipython(ipython_shell) = None
               THEN /\ raised' = "AttributeError"
                    /\ UNCHANGED display_formatter
               ELSE /\ raised' = "none"
                    /\ display_formatter' = "DEFAULT_IPYTHON_DISPLAY_FORMATTER"
    /\ last' = ModeCall("reset", ipython_shell)

\* ---------------------------------------------------------------- specifications
\* Renders and resample requests: the registry, the store and the displays.
\* The assignment callback reads the registry and the store and writes the
\* namespace only, so it is left to SpecAssign.
NextDisplay ==
    \/ \E obj \in Rendered : RenderPlain(obj)
    \/ \E obj \in Rendered : RenderDisplay(obj)
    \/ StoreBegin
    \/ StoreCommit
    \/ StoreFail
    \/ SetDatalink
    \/ SendResample
    \/ \E m \in ResampleMsgs : RecvResample(m)

SpecDisplay == Init /\ [][NextDisplay]_vars

\* Renders with datalink on and assignment requests: the namespace.
NextAssign ==
    \/ \E obj \in Rendered : RenderDisplay(obj)
    \/ StoreBegin
    \/ StoreCommit
    \/ StoreFail
    \/ \E m \in AssignMsgs : RecvAssignment(m)

SpecAssign == Init /\ [][NextAssign]_vars

\* Every kind of operation, the display modes included, with the assignment
\* requests that reach the store: the registry.
RegistryAssignMsgs ==
    {AssignMsg(d, <<"x">>, <<Clause(1, 1)>>, TRUE, 2) : d \in DisplayIds}

RegistryResampleMsgs ==
    {ResampleMsg(d, f, TRUE, TRUE) : d \in DisplayIds, f \in {<< >>, <<Clause(1, 1)>>}}

NextRegistry ==
    \/ \E obj \in Rendered : RenderPlain(obj)
    \/ \E obj \in Rendered : RenderDisplay(obj)
    \/ StoreBegin
    \/ StoreCommit
    \/ StoreFail
    \/ SetDatalink
    \/ SendResample
    \/ \E m \in RegistryResampleMsgs : RecvResample(m)
    \/ \E m \in RegistryAssignMsgs : RecvAssignment(m)
    \/ register(None)
    \/ deregister(None)
    \/ reset(None)

SpecRegistry == Init /\ [][NextRegistry]_vars

\* ---------------------------------------------------------------- DEXMetadata
\* a keyword of a call: left out, or passed with one of its values
Keyword(key, values) == {<< >>} \cup {[k \in {key} |-> v] : v \in values}

\* the keyword arguments of an add_view call: is_default passed or not, type
\* passed or not ("public" is the one DEXViewType, line 23), user_id passed
\* or not
AddViewCalls ==
    {is_default @@ type @@ user_id :
        is_default \in Keyword("is_default", BOOLEAN),
        type \in Keyword("type", {"public", "private"}),
        user_id \in Keyword("user_id", {"u1"})}

\* dict.get(key, default) of the keyword arguments
kwargs_get(kwargs, key, default) ==
    IF key \in DOMAIN kwargs THEN kwargs[key] ELSE default

\* DEXView(**kwargs) raises a ValidationError for a type that is not a
\* DEXViewType, lines 22-23 and 102
DEXView_validates(kwargs) == kwargs_get(kwargs, "type", "public") = "public"

\* DEXView, lines 86-104: the fields of a new view, defaults included
DEXView(is_default, kwargs) ==
    [is_default |-> is_default,
     type       |-> kwargs_get(kwargs, "type", "public"),
     user_id    |-> kwargs_get(kwargs, "user_id", "")]

\* the view gets the is_default passed, also the first one
add_view_is_default_as_passed(kwargs) == kwargs_get(kwargs, "is_default", FALSE)

\* add_view, lines 135-137: is_default popped from the keyword arguments,
\* False when not passed, and True for the first view whatever was passed
add_view_is_default(kwargs) ==
    IF views = << >> THEN TRUE ELSE kwargs_get(kwargs, "is_default", FALSE)

\* DEXMetadata.add_view, lines 134-143
add_view(kwargs) ==
    /\ pc = "idle"
    /\ ops < MaxOps
    /\ LET is_default == add_view_is_default(kwargs)
           rest == [k \in DOMAIN kwargs \ {"is_default"} |-> kwargs[k]]
       IN IF DEXView_validates(rest)
          THEN /\ views' = Append(views, DEXView(is_default, rest))
               /\ raised' = "none"
               /\ last' = [LastNone EXCEPT !.kind = "add_view", !.kwargs = kwargs]
          ELSE /\ views' = views
               /\ raised' = "ValidationError"
               /\ last' = [LastNone EXCEPT !.kind = "add_view", !.kwargs = kwargs,
                                           !.error = "ValidationError"]
    /\ ops' = ops + 1
    /\ sent' = << >>
    /\ UNCHANGED <<ENABLE_DATALINK, SUBSET_TO_DATAFRAME_HASH,
                   DATAFRAME_HASH_TO_DISPLAY_ID, SUBSET_FILTERS,
                   DISPLAY_ID_TO_ORIG_METADATA, next_uuid, store, displayed, user_ns,
                   inbox, pc, cur, first_display, failed, writes, settings,
                   display_formatter, environment, dataresource>>

\* the cells of a notebook under either dx formatter or the default one:
\* every object goes through the installed formatter
NextFormat ==
    \/ \E obj \in Objects : RenderPlain(obj)
    \/ \E obj \in Objects : RenderDisplay(obj)
    \/ \E obj \in Objects : RenderSimplePlain(obj)
    \/ \E obj \in Objects : RenderSimpleDisplay(obj)
    \/ \E obj \in Objects : FormatDefault(obj)
    \/ StoreBegin
    \/ StoreCommit
    \/ StoreFail
    \/ SetDatalink
    \/ SendResample
    \/ \E m \in RegistryResampleMsgs : RecvResample(m)
    \/ register(None)
    \/ deregister(None)
    \/ reset(None)

SpecFormat == Init /\ [][NextFormat]_vars

\* a DEXMetadata with no views yet, and the add_view calls made on it
NextViews == \E kwargs \in AddViewCalls : add_view(kwargs)

SpecViews == Init /\ [][NextViews]_vars

\* format_dx on dataframes of every shape under every display limit, with
\* ENABLE_DATALINK on and off: a new display under a new display id, or an
\* update of the display with display id 1.
NextSample ==
    \/ \E shape \in Shapes : FormatDx(shape, FALSE, NoId)
    \/ \E shape \in Shapes : FormatDx(shape, TRUE, 1)
    \/ SetDatalink
    \/ \E r \in RowLimits, c \in ColLimits : SetDisplayLimits(r, c)
    \/ register(None)
    \/ deregister(None)
    \/ reset(None)

SpecSample == Init /\ [][NextSample]_vars

\* register, deregister and reset in every process, with and without a shell
\* passed, under every value of the DX settings.
NextModes ==
    \/ \E ipython_shell \in Shells : register(ipython_shell)
    \/ \E ipython_shell \in Shells : deregister(ipython_shell)
    \/ \E ipython_shell \in Shells : simple_deregister(ipython_shell)
    \/ \E ipython_shell \in Shells : reset(ipython_shell)

SpecModes == InitModes /\ [][NextModes]_vars

\* The body generators and format_dataresource called with a dataframe and
\* nothing else, as the tests call them.
NextPayload ==
    \/ \E df \in Frames, d \in DisplayIds : GenerateDxBody(df, d)
    \/ \E df \in Frames : FormatDataresource(df, FALSE, NoId)

SpecPayload == Init /\ [][NextPayload]_vars

\* Every operation.
Next ==
    \/ NextDisplay
    \/ \E m \in AssignMsgs : RecvAssignment(m)
    \/ \E ipython_shell \in Shells : register(ipython_shell)
    \/ \E ipython_shell \in Shells : deregister(ipython_shell)
    \/ \E ipython_shell \in Shells : reset(ipython_shell)
    \/ \E shape \in Shapes, update \in BOOLEAN, d \in DisplayIds \cup {NoId} :
           FormatDx(shape, update, d)
    \/ \E r \in RowLimits, c \in ColLimits : SetDisplayLimits(r, c)
    \/ \E obj \in Objects : RenderSimplePlain(obj)
    \/ \E obj \in Objects : RenderSimpleDisplay(obj)
    \/ \E obj \in Objects : FormatDefault(obj)

Spec == Init /\ [][Next]_vars

\* ---------------------------------------------------------------- properties
ErrorEnvelope(err) == Envelope("error", err, "traceback", NoName)

\* the reports among the messages the last callback sent
Reports == {i \in DOMAIN sent : sent[i].status \in {"ok", "error"}}

\* C1: a render with datalink on is an update exactly when its fingerprint
\* was known before (rendered with datalink on, or recorded by a resample),
\* and then it is displayed under the display id the fingerprint already had
C1_UpdateIffKnown ==
    (last.kind = "render" /\ last.datalink) =>
        /\ last.update = last.known_before
        /\ last.same_id

\* a second render of a fingerprint, displayed as an update
C1_Witness ==
    /\ last.kind = "render" /\ last.datalink
    /\ last.known_before /\ last.update /\ last.same_id

\* C2: a step keeps every binding of the namespace with its value, adds at
\* most one binding, and a successful assignment adds exactly one
C2_NoOverwrite ==
    [][/\ \A n \in DOMAIN user_ns :
              n \in DOMAIN user_ns' /\ user_ns'[n] = user_ns[n]
       /\ Cardinality(DOMAIN user_ns' \ DOMAIN user_ns) <= 1
       /\ (ops' = ops + 1 /\ last'.kind = "assign" /\ last'.error = "none")
              => Cardinality(DOMAIN user_ns' \ DOMAIN user_ns) = 1]_vars

\* an assignment under a requested name that was bound
C2_Witness ==
    /\ last.kind = "assign" /\ last.error = "none"
    /\ last.requested \in last.ns_before
    /\ last.free_name \in DOMAIN user_ns
    /\ user_ns[last.requested] = UserValue

\* the name the claim describes: x when unbound, else x_k for the least k >= 1
\* with x_k unbound
ExpectedName(x, ns) ==
    IF x \notin ns THEN x
    ELSE Append(x, CHOOSE k \in 1..(Cardinality(ns) + 1) :
                       /\ Append(x, k) \notin ns
                       /\ \A j \in 1..(k - 1) : Append(x, j) \in ns)

NameUniverse == {<<"x">>, <<"x", 1>>, <<"x", 2>>, <<"x", 3>>, <<"y">>}

\* C3: the name an assignment binds is the requested name when that is
\* unbound, and otherwise the requested name with the least suffix k >= 1
\* that is unbound; the same for every namespace over a small set of names
C3_FirstFreeSuffix ==
    /\ (last.kind = "assign" /\ last.error = "none") =>
           last.free_name = ExpectedName(last.requested, last.ns_before)
    /\ \A ns \in SUBSET NameUniverse : \A x \in ReqNames :
           check_variable_name(x, ns) = ExpectedName(x, ns)

\* x and x_1 were bound and the assignment bound x_2
C3_Witness ==
    /\ last.kind = "assign" /\ last.error = "none"
    /\ last.requested = <<"x">>
    /\ {<<"x">>, <<"x", 1>>} \subseteq last.ns_before
    /\ last.free_name = <<"x", 2>>
    /\ <<"x", 2>> \in DOMAIN user_ns

C6_OneReport ==
    (last.kind = "assign" /\ last.carries /\ last.error # "KeyError") =>
        /\ Cardinality(Reports) = 1
        /\ \A i \in Reports :
               IF last.error = "none"
               THEN sent[i].status = "ok" /\ sent[i].variable_name = last.free_name
               ELSE sent[i].status = "error"

\* C7 as stated: an error in the assignment callback is sent as an error
\* envelope and does not leave the callback
C7_AssignmentErrorsEnveloped ==
    (last.kind = "assign" /\ last.error \notin {"none", "ignored"}) =>
        /\ raised = "none"
        /\ \E i \in DOMAIN sent : sent[i].status = "error" /\ sent[i].error = last.error

\* C8: an error in the resample callback is answered by exactly one error
\* envelope with the error text and the traceback, nothing leaves the
\* callback, and a request that waits can be handled next
C8_ResampleErrorsEnveloped ==
    last.kind = "resample" =>
        /\ raised = "none"
        /\ pc = "idle"
        /\ IF last.error \in {"none", "ignored"} THEN sent = << >>
           ELSE sent = <<ErrorEnvelope(last.error)>>
        /\ (inbox # << >> /\ ops < MaxOps) =>
               ENABLED (\E m \in ResampleMsgs : RecvResample(m))

\* a resample request ended with an error while another request waits
C8_Witness ==
    /\ last.kind = "resample" /\ last.error = "InvalidFilterError"
    /\ sent = <<ErrorEnvelope("InvalidFilterError")>>
    /\ inbox # << >>

\* C9: handling a resample request (display_id and filters present) whose
\* display id has no registry entry changes neither registry nor store and
\* ends with an error envelope, never a result; the error is
\* UnknownDisplayError when the message parses
C9_UnknownDisplay ==
    [][(/\ ops' = ops + 1 /\ last'.kind = "resample"
        /\ last'.carries /\ ~last'.registered) =>
           /\ UNCHANGED <<SUBSET_TO_DATAFRAME_HASH, DATAFRAME_HASH_TO_DISPLAY_ID,
                          SUBSET_FILTERS, store, displayed>>
           /\ last'.error \notin {"none", "ignored"}
           /\ sent' = <<ErrorEnvelope(last'.error)>>
           /\ last'.parsed => last'.error = "UnknownDisplayError"]_vars

\* a resample request for a display id without registry entry was handled
C9_Witness ==
    /\ last.kind = "resample" /\ last.carries /\ ~last.registered /\ last.parsed
    /\ sent = <<ErrorEnvelope("UnknownDisplayError")>>

\* C10 as stated: a finished render wrote the dataset exactly when it was
\* not an update, and no fingerprint is written twice
C10_WriteIffNotUpdate ==
    /\ (last.kind = "render" /\ pc = "idle") => (last.wrote <=> ~last.update)
    /\ \A h \in Hashes : writes[h] <= 1

\* C10 amended: the same for renders with datalink on; with datalink off a
\* render writes nothing
C10_WriteIffNotUpdateDatalink ==
    /\ (last.kind = "render" /\ pc = "idle" /\ last.datalink) =>
           /\ last.wrote <=> ~last.update
           /\ last.update => last.same_id
    /\ (last.kind = "render" /\ ~last.datalink) => ~last.wrote
    /\ \A h \in Hashes : writes[h] <= 1

\* a second render of a fingerprint that was written once: no second write
C10_Witness ==
    /\ last.kind = "render" /\ pc = "idle" /\ last.datalink
    /\ last.update /\ ~last.wrote
    /\ \E h \in Hashes : writes[h] = 1

\* the fingerprints a render registered and finished handling
Settled == {h \in DOMAIN DATAFRAME_HASH_TO_DISPLAY_ID : cur.hash # h}

\* C11: once the first render of an unknown fingerprint has completed with
\* datalink on, the fingerprint is registered under a display id minted by
\* that render and shared with no other registered fingerprint, the table
\* of that display id holds the full dataset, and the metadata of that
\* render is stored under the display id
C11_FirstRenderRegisters ==
    /\ (last.kind = "render" /\ last.datalink /\ ~last.update /\ pc = "idle"
            /\ last.error = "none") => (last.fresh_id /\ last.wrote)
    /\ \A h \in Settled :
           LET d == DATAFRAME_HASH_TO_DISPLAY_ID[h]
           IN /\ KnownHash(h) /\ get_display_id(h) = d
              /\ \A g \in DOMAIN DATAFRAME_HASH_TO_DISPLAY_ID :
                     DATAFRAME_HASH_TO_DISPLAY_ID[g] = d => g = h
              /\ d \in DOMAIN DISPLAY_ID_TO_ORIG_METADATA
              /\ DISPLAY_ID_TO_ORIG_METADATA[d].applied_filters = << >>
              /\ DISPLAY_ID_TO_ORIG_METADATA[d].hash = h
              /\ DISPLAY_ID_TO_ORIG_METADATA[d].dataframe_info.orig_num_rows
                     = Cardinality(h[2])
              /\ d \notin failed =>
                     store[generate_sql_table_name(d)] =
                         [status |-> "complete", rows |-> h[2]]

\* a first render with datalink on has completed: its table is written
C11_Witness ==
    /\ last.kind = "render" /\ last.datalink /\ ~last.update /\ pc = "idle"
    /\ last.error = "none" /\ last.fresh_id /\ last.wrote
    /\ \E h \in Settled :
           store[generate_sql_table_name(DATAFRAME_HASH_TO_DISPLAY_ID[h])] =
               [status |-> "complete", rows |-> {1, 2}]

\* the display ids whose first metadata is that of fingerprint h
MetadataIds(h) ==
    {d \in DOMAIN DISPLAY_ID_TO_ORIG_METADATA : DISPLAY_ID_TO_ORIG_METADATA[d].hash = h}

\* C12 as stated: every fingerprint keeps the one display id it was first
\* displayed under, and no display of any render or resample for a
\* fingerprint carries another display id
C12_OneDisplayId ==
    /\ \A h \in DOMAIN first_display :
           KnownHash(h) /\ get_display_id(h) = first_display[h]
    /\ last.kind \in {"render", "resample"} => last.same_id
    /\ \A h \in Hashes : Cardinality(MetadataIds(h)) <= 1

\* C12 amended: the same for the displays of renders with datalink on and
\* of resamples; a render with datalink off is displayed under a new
\* display id every time
C12_OneDisplayIdDatalink ==
    /\ DOMAIN first_display = DOMAIN SUBSET_TO_DATAFRAME_HASH
    /\ \A h \in DOMAIN first_display :
           KnownHash(h) /\ get_display_id(h) = first_display[h]
    /\ ((last.kind = "render" /\ last.datalink) \/ last.kind = "resample")
           => last.same_id
    /\ \A h \in Hashes :
           Cardinality(MetadataIds(h) \cap RegisteredDisplays) <= 1
    /\ (last.kind = "render" /\ ~last.datalink) => last.same_id = ~last.known_before

\* a resample whose result has a fingerprint that was displayed before is
\* displayed under the display id that fingerprint has
C12_Witness ==
    /\ last.kind = "resample" /\ last.error = "none"
    /\ last.known_before /\ last.same_id
    /\ \E r \in displayed : r.update

\* the sample of a new display was sent under display id d
SampleEmitted(d) ==
    \E r \in displayed : r.display_id = d /\ ~r.update /\ ~r.primary

\* C13: when a render is about to start the store write, and while it is
\* writing, the sample is already displayed; before the write starts the
\* table does not exist, and no table is being written or was written for
\* a display id whose sample was not displayed
C13_SampleBeforeStore ==
    /\ pc = "persist" =>
           /\ SampleEmitted(cur.display_id)
           /\ ~last.wrote
           /\ store[cur.table].status = "absent"
    /\ pc = "writing" => (SampleEmitted(cur.display_id) /\ last.wrote)
    /\ \A d \in DisplayIds :
           /\ store[d].status = "writing" => (pc = "writing" /\ cur.table = d)
           /\ store[d].status # "absent" => SampleEmitted(d)

\* the sample is displayed and the write of the table has not started
C13_Witness ==
    /\ pc = "persist" /\ SampleEmitted(cur.display_id)
    /\ store[cur.table].status = "absent" /\ cur.rows = {1, 2}

\* C14: an assignment request whose filter list has a clause that does not
\* compile ends with InvalidFilterError before the store is queried and
\* binds nothing; a query that is run carries every clause of the request
C14_WholeCompileFails ==
    last.kind = "assign" =>
        /\ (\E i \in DOMAIN last.filters : ~ValidClause(last.filters[i])) =>
               /\ last.carries => last.error = "InvalidFilterError"
               /\ ~last.queried
               /\ ~last.bound
        /\ last.queried => last.where = last.filters
        /\ last.bound => (last.error = "none" /\ last.queried)

\* a request for a stored display with one clause that compiles and one
\* that does not
C14_Witness ==
    /\ last.kind = "assign" /\ last.registered
    /\ store[generate_sql_table_name(1)].status = "complete"
    /\ last.filters = <<Clause(1, 2), Clause(2, 1)>>
    /\ last.error = "InvalidFilterError" /\ ~last.queried /\ ~last.bound

\* C15: an assignment request with no filters queries the store with the
\* row limit only and gets the first rows of the whole dataset; one with
\* filters queries with all its clauses and gets the first rows among
\* those that satisfy every clause
C15_EmptyIsAlwaysTrue ==
    (last.kind = "assign" /\ last.queried) =>
        /\ last.limit \in Limits
        /\ last.filters = << >> => last.where = << >>
        /\ last.filters # << >> => last.where = last.filters
        /\ last.result_ok
        /\ last.error = "none" =>
               /\ last.bound
               /\ Cardinality(user_ns[last.free_name].rows) <= last.limit

\* both rows of a stored dataset are assigned by a request without filters
C15_Witness ==
    /\ last.kind = "assign" /\ last.error = "none" /\ last.queried
    /\ last.filters = << >> /\ last.where = << >> /\ last.limit = 2
    /\ user_ns[last.free_name].rows = {1, 2}

\* h was recorded as a subset of a registered dataset
IsSubset(h) == KnownHash(h) /\ SUBSET_TO_DATAFRAME_HASH[h] # h

\* the filters recorded against h, none when nothing is recorded
RecordedFilters(h) ==
    IF h \in DOMAIN SUBSET_FILTERS THEN SUBSET_FILTERS[h] ELSE << >>

\* C16: the render of a fingerprint recorded as a subset is displayed as an
\* update under the display id of the dataset it is a subset of, with the
\* filters recorded against the fingerprint as applied_filters; it mints no
\* display id, writes nothing, and tables exist for registered datasets only
C16_SubsetRender ==
    /\ (last.kind = "render" /\ last.datalink /\ KnownHash(last.hash)
            /\ last.update) =>
           /\ last.emitted =
                  {Display(DATAFRAME_HASH_TO_DISPLAY_ID[SUBSET_TO_DATAFRAME_HASH[last.hash]],
                           TRUE, last.hash, RecordedFilters(last.hash), prim) :
                       prim \in BOOLEAN}
           /\ last.emitted \subseteq displayed
           /\ ~last.fresh_id /\ ~last.wrote /\ pc = "idle"
    /\ (last.kind = "render" /\ last.datalink /\ IsSubset(last.hash)) => last.update
    /\ \A d \in DisplayIds : store[d].status # "absent" => d \in RegisteredDisplays
    /\ \A h \in DOMAIN SUBSET_TO_DATAFRAME_HASH :
           IsSubset(h) => h \notin DOMAIN DATAFRAME_HASH_TO_DISPLAY_ID

\* a dataset equal to the result of a filtered resample is rendered
C16_Witness ==
    /\ last.kind = "render" /\ last.datalink /\ last.update
    /\ IsSubset(last.hash)
    /\ RecordedFilters(last.hash) = <<Clause(1, 1)>>
    /\ \E r \in last.emitted : r.applied_filters = <<Clause(1, 1)>>

\* C17: no step removes a fingerprint from the registry or changes the
\* display id a fingerprint is registered under
C17_RegistryPersists ==
    [][\A h \in DOMAIN SUBSET_TO_DATAFRAME_HASH :
           /\ h \in DOMAIN SUBSET_TO_DATAFRAME_HASH'
           /\ SUBSET_TO_DATAFRAME_HASH'[h] \in DOMAIN DATAFRAME_HASH_TO_DISPLAY_ID'
           /\ DATAFRAME_HASH_TO_DISPLAY_ID'[SUBSET_TO_DATAFRAME_HASH'[h]]
                  = DATAFRAME_HASH_TO_DISPLAY_ID[SUBSET_TO_DATAFRAME_HASH[h]]
           /\ h \in DOMAIN DATAFRAME_HASH_TO_DISPLAY_ID =>
                  /\ h \in DOMAIN DATAFRAME_HASH_TO_DISPLAY_ID'
                  /\ DATAFRAME_HASH_TO_DISPLAY_ID'[h] = DATAFRAME_HASH_TO_DISPLAY_ID[h]]_vars

\* a dataset and a subset of it are registered, and reset() has run
C17_Witness ==
    /\ last.kind = "reset"
    /\ settings.DISPLAY_MODE = "plain"
    /\ \E h \in DOMAIN SUBSET_TO_DATAFRAME_HASH : IsSubset(h)

\* C18: the sample format_dx displays has at most DISPLAY_MAX_ROWS rows and
\* DISPLAY_MAX_COLUMNS columns and never more than the dataframe; a
\* dataframe within both limits is displayed whole and the metadata
\* reports equal dimensions; the metadata carries the dimensions of the
\* dataframe as given and those of the sample displayed
C18_SampleWithinLimits ==
    last.kind = "format_dx" =>
        /\ last.payload.num_rows <= last.max_rows
        /\ last.payload.num_cols <= last.max_columns
        /\ last.payload.num_rows <= last.input.num_rows
        /\ last.payload.num_cols <= last.input.num_cols
        /\ (last.input.num_rows <= last.max_rows
                /\ last.input.num_cols <= last.max_columns) =>
               /\ last.payload = last.input
               /\ last.info.truncated_num_rows = last.info.orig_num_rows
               /\ last.info.truncated_num_cols = last.info.orig_num_cols
        /\ last.info.orig_num_rows = last.input.num_rows
        /\ last.info.orig_num_cols = last.input.num_cols
        /\ last.info.truncated_num_rows = last.payload.num_rows
        /\ last.info.truncated_num_cols = last.payload.num_cols

\* 200,000 rows and 51 columns under the limits of register(): 100,000 rows
\* and 50 columns are displayed
C18_Witness ==
    /\ last.kind = "format_dx"
    /\ last.input = [num_rows |-> 200000, num_cols |-> 51]
    /\ last.max_rows = DX_DISPLAY_MAX_ROWS /\ last.max_columns = DX_DISPLAY_MAX_COLUMNS
    /\ last.payload = [num_rows |-> 100000, num_cols |-> 50]
    /\ last.info.orig_num_rows = 200000 /\ last.info.truncated_num_rows = 100000

DefaultEquivalent(a, b) ==
    /\ a.rows = b.rows
    /\ a.index = b.index \/ (is_default_index(a.index) /\ is_default_index(b.index))

\* C20: dataframes with the same values whose indices differ only in the
\* form of the default index have the same fingerprint, and every render
\* with datalink on obtains the fingerprint of the dataframe it was given,
\* the one its first display is recorded under
C20_FingerprintNormalised ==
    /\ \A a, b \in DataFrames :
           DefaultEquivalent(a, b) => fingerprint(a) = fingerprint(b)
    /\ (last.kind = "render" /\ last.datalink) =>
           /\ last.hash = fingerprint(last.given)
           /\ last.hash \in DOMAIN first_display
           /\ \A b \in Rendered :
                  DefaultEquivalent(last.given, b) =>
                      (KnownHash(fingerprint(b)) /\ fingerprint(b) = last.hash)

\* a dataframe with an int64 index 0..n-1 is rendered after the same values
\* under a RangeIndex: same fingerprint, an update
C20_Witness ==
    /\ last.kind = "render" /\ last.datalink /\ last.update
    /\ last.given = [rows |-> {1, 2}, index |-> "int64"]
    /\ last.hash = <<"sha", {1, 2}, "range">>
    /\ writes[last.hash] = 1

\* the call was made with a shell at hand: one passed to it, or IPython running
WithShell == last.shell_given \/ last.running

\* the values the options have in plain mode: those of PandasSettings, and
\* for the options PandasSettings does not have, those every settings class
\* gives them
PlainOptions ==
    [DISPLAY_MODE |-> "plain",
     DISPLAY_MAX_ROWS |-> PANDAS_DISPLAY_MAX_ROWS,
     DISPLAY_MAX_COLUMNS |-> PANDAS_DISPLAY_MAX_COLUMNS,
     MEDIA_TYPE |-> PANDAS_MEDIA_TYPE,
     FLATTEN_INDEX_VALUES |-> FALSE,
     FLATTEN_COLUMN_VALUES |-> TRUE,
     STRINGIFY_INDEX_VALUES |-> FALSE,
     STRINGIFY_COLUMN_VALUES |-> TRUE]

\* C21 as stated: after reset() called with a shell at hand, every option
\* register() and deregister() apply has its plain value, whatever calls
\* came before, and the display formatter is the default IPython formatter
C21_ResetRevertsAll ==
    (last.kind = "reset" /\ WithShell) =>
        /\ \A o \in DOMAIN PlainOptions : settings[o] = PlainOptions[o]
        /\ display_formatter = "DEFAULT_IPYTHON_DISPLAY_FORMATTER"

\* C29 as stated: after a call of register(), deregister() or reset() made
\* with a shell at hand, the display mode and the display formatter are
\* those of that call; a call made with no IPython running and no shell
\* passed changes neither the settings nor the display formatter
C29_ModeOfLastCall ==
    [][(ops' = ops + 1 /\ last'.kind \in {"register", "deregister",
                                          "simple_deregister", "reset"}) =>
           IF last'.shell_given \/ last'.running
           THEN /\ last'.kind = "register" =>
                       /\ settings'.DISPLAY_MODE = "enhanced"
                       /\ display_formatter' = "DXDisplayFormatter"
                /\ last'.kind = "deregister" =>
                       /\ settings'.DISPLAY_MODE = "simple"
                       /\ display_formatter' = "DXDataResourceDisplayFormatter"
                /\ last'.kind = "simple_deregister" =>
                       /\ settings'.DISPLAY_MODE = "simple"
                       /\ display_formatter' = "main.DXDisplayFormatter"
                /\ last'.kind = "reset" =>
                       /\ settings'.DISPLAY_MODE = "plain"
                       /\ display_formatter' = "DEFAULT_IPYTHON_DISPLAY_FORMATTER"
           ELSE UNCHANGED <<settings, display_formatter>>]_vars

\* C22 as stated: the payload generate_dx_body returns has the DX media type
\* as a key, and the data and the schema are found under it
C22_MediaTypeKey ==
    last.kind = "generate_dx_body" =>
        /\ DX_MEDIA_TYPE \in DOMAIN last.returned
        /\ {"data", "schema"} \subseteq DOMAIN last.returned[DX_MEDIA_TYPE]

\* the data and the fields of the body last returned by generate_dx_body
BodyData == last.returned.data
BodyFields == last.returned.schema.fields

\* C23 as stated: the first list of the data is the list of the index
\* values, the lists after it are the value lists of the columns in column
\* order, and there are as many lists as the schema has fields
C23_ColumnOriented ==
    last.kind = "generate_dx_body" =>
        /\ Len(BodyData) = 1 + Len(last.frame.columns)
        /\ BodyData[1] = last.frame.index[1].values
        /\ \A i \in DOMAIN last.frame.columns :
               BodyData[1 + i] = last.frame.columns[i].values
        /\ Len(BodyData) = Len(BodyFields)

\* C23 amended: the data starts with one list per level of the index, in
\* level order, followed by the value lists of the columns in column order;
\* every list has one value per row, and there are as many lists as fields
C23_ColumnOrientedLevels ==
    last.kind = "generate_dx_body" =>
        LET k == Len(last.frame.index)
        IN /\ Len(BodyData) = k + Len(last.frame.columns)
           /\ \A i \in DOMAIN last.frame.index :
                  BodyData[i] = last.frame.index[i].values
           /\ \A i \in DOMAIN last.frame.columns :
                  BodyData[k + i] = last.frame.columns[i].values
           /\ \A i \in DOMAIN BodyData : Len(BodyData[i]) = num_rows(last.frame)
           /\ Len(BodyData) = Len(BodyFields)

\* the body of the sample dataframe with col_1 and col_2 as its index: two
\* lists for the index, one for col_3
C23_Witness ==
    /\ last.kind = "generate_dx_body"
    /\ last.frame = set_index(sample_dataframe, 2)
    /\ BodyData = <<<<"a", "a", "a">>, <<"b", "b", "b">>, <<"c", "c", "c">>>>
    /\ Len(BodyFields) = 3

\* the records and the fields of the payload last returned by
\* format_dataresource
Records == last.returned[DATARESOURCE_MEDIA_TYPE].data
RecordFields == last.returned[DATARESOURCE_MEDIA_TYPE].schema.fields

\* C24 as stated: every record of the payload of format_dataresource has an
\* "index" key, the index values of the records are 0..n-1, and a record
\* has as many keys as the schema has fields
C24_IndexIsPositional ==
    last.kind = "format_dataresource" =>
        /\ Len(Records) = num_rows(last.frame)
        /\ \A r \in DOMAIN Records :
               /\ "index" \in DOMAIN Records[r]
               /\ Records[r]["index"] = RangeIndex(Len(Records))[r]
               /\ Cardinality(DOMAIN Records[r]) = Len(RecordFields)

\* the displays of the last call that are the main display, and those that
\* are the placeholder "<display_id>-primary"
MainDisplays == {r \in last.emitted : ~r.primary}
Placeholders == {r \in last.emitted : r.primary}

\* C25: format_dx returns without raising with ENABLE_DATALINK on and off;
\* it sends exactly one main display, under its display id and with its
\* update flag; it sends the placeholder exactly when ENABLE_DATALINK is on,
\* once, for the same display id and with the same update flag
C25_PlaceholderIffDatalink ==
    last.kind = "format_dx" =>
        /\ raised = "none" /\ pc = "idle"
        /\ last.emitted \subseteq displayed
        /\ Cardinality(MainDisplays) = 1
        /\ \A r \in last.emitted :
               r.display_id = last.shown_id /\ r.update = last.update
        /\ last.datalink => Cardinality(Placeholders) = 1
        /\ ~last.datalink => Placeholders = {}

\* format_dx has updated display 1 with ENABLE_DATALINK off: no placeholder
C25_Witness ==
    /\ last.kind = "format_dx" /\ ~last.datalink /\ last.update
    /\ last.shown_id = 1
    /\ last.emitted = {Display(1, TRUE, NoHash, << >>, FALSE)}
    /\ \E r \in displayed : r.primary /\ ~r.update

\* ---------------------------------------------------------------- C26
\* C26: every display sent with update=True, the payload or the placeholder,
\* goes to a display id under which the same kind of display was sent
\* before with update=False.
C26_UpdateTargetsDisplayed ==
    \A r \in displayed :
        r.update =>
            \E first \in displayed :
                /\ first.display_id = r.display_id
                /\ first.primary = r.primary
                /\ ~first.update

\* a dataframe rendered a second time under the dataresource formatter is
\* sent as an update, placeholder included
C26_Witness ==
    /\ last.kind = "render"
    /\ last.formatter = "DXDataResourceDisplayFormatter"
    /\ last.update
    /\ \E r \in last.emitted : r.primary /\ r.update

\* ---------------------------------------------------------------- C27
\* every entry of the map before a step is in the map after it, unchanged
EntriesKept(before, after) ==
    \A display_id \in DOMAIN before :
        /\ display_id \in DOMAIN after
        /\ after[display_id] = before[display_id]

\* C27: the original metadata of a display id is first-write-wins: once a
\* display id has an entry in DISPLAY_ID_TO_ORIG_METADATA (dx formatter) or
\* DISPLAY_ID_TO_METADATA (dataresource formatter), no later render or
\* update under that display id replaces the entry.
C27_FirstWriteWins ==
    [][/\ EntriesKept(DISPLAY_ID_TO_ORIG_METADATA, DISPLAY_ID_TO_ORIG_METADATA')
       /\ EntriesKept(DISPLAY_ID_TO_METADATA, DISPLAY_ID_TO_METADATA')]_vars

\* an update was displayed under a display id with other filters than the
\* ones in the metadata stored under that id
C27_Witness ==
    \E r \in displayed :
        /\ r.update
        /\ r.display_id \in DOMAIN DISPLAY_ID_TO_ORIG_METADATA
        /\ r.applied_filters # DISPLAY_ID_TO_ORIG_METADATA[r.display_id].applied_filters

\* ---------------------------------------------------------------- C28
\* the display id is used nowhere: no display was sent under it, no hash is
\* registered under it and no metadata is stored under it
FreshDisplayId(display_id) ==
    /\ \A r \in displayed : r.display_id # display_id
    /\ display_id \notin RegisteredDisplays
    /\ display_id \notin DOMAIN DISPLAY_ID_TO_ORIG_METADATA
    /\ display_id \notin DOMAIN DISPLAY_ID_TO_METADATA

\* C28: with ENABLE_DATALINK off a render, under either dx formatter,
\* changes neither the registry nor the table store, and what it displays
\* is a new display (update False) under a display id not used before,
\* also for a dataframe that was rendered before.
C28_DatalinkOffRender ==
    [][(~ENABLE_DATALINK /\ last'.kind = "render" /\ ops' = ops + 1) =>
          /\ UNCHANGED <<SUBSET_TO_DATAFRAME_HASH, DATAFRAME_HASH_TO_DISPLAY_ID,
                         SUBSET_FILTERS, store, writes>>
          /\ last'.emitted # {}
          /\ displayed' = displayed \cup last'.emitted
          /\ \A r \in last'.emitted :
                 /\ ~r.update
                 /\ r.display_id = last'.shown_id
                 /\ FreshDisplayId(r.display_id)]_vars

\* a dataframe is rendered with ENABLE_DATALINK off after it was rendered
\* before, with the setting on or off
C28_Witness ==
    /\ last.kind = "render"
    /\ ~last.datalink
    /\ \E display_id \in DOMAIN DISPLAY_ID_TO_ORIG_METADATA :
           /\ display_id # last.shown_id
           /\ last.shown_id \in DOMAIN DISPLAY_ID_TO_ORIG_METADATA
           /\ DISPLAY_ID_TO_ORIG_METADATA[display_id].hash =
                  DISPLAY_ID_TO_ORIG_METADATA[last.shown_id].hash

\* ---------------------------------------------------------------- C30
\* the two display formatters of dx
DxFormatters == {"DXDisplayFormatter", "DXDataResourceDisplayFormatter"}

====
